---- MODULE Spec2Model ----
(***************************************************************************)
(* Model of the sync command of rkdb (src/src/commands/sync.py, run from   *)
(* src/src/main.py): the background playlist fetcher, the consumer loop of *)
(* sync_spotify_playlists_to_rekordbox, sync_playlist's track matching and *)
(* the persistence of the stores.                                          *)
(***************************************************************************)
EXTENDS Integers, Sequences, FiniteSets, TLC

\* ------------------------------------------------------------------ bounds
\* Number of playlists in sp_target_playlists.
NumPlaylists == 4
\* Number of distinct Spotify track ids the playlists draw from.
NumTracks == 3
\* Longest rb_playlist_song_queue the custom-track step is followed on.
MaxQueue == 3
\* Largest number of directives of any kind custom_tracks.yaml holds for a
\* playlist; a list of inserts alone is followed with one more.
MaxDirectives == 2

\* ------------------------------------------------------- program constants
\* Faulty pool size: one thread too many.
max_workers_plus_one == 3 + 1

\* ThreadPoolExecutor(max_workers=3, ...)
max_workers == 3
\* sys.exit(130) in the except handler of the sync command
EXIT_SYNC_EXCEPT == 130
\* sys.exit(0): main's normal end and main's KeyboardInterrupt handler
EXIT_OK == 0
\* sys.exit(1): main's handler of an Exception escaping the command
EXIT_ERROR == 1

\* ------------------------------------------------------------------- data
\* Python's None for a Rekordbox track id / Rekordbox track.
NoneId == 0
\* Python's None for the error field of PlaylistData and for an iTunes URL.
None == "None"

sp_target_playlists == 1..NumPlaylists
TrackIds == 1..NumTracks

\* playlist['name']: playlists 1 and 2 carry the same name (Spotify does not
\* keep names unique), every other playlist a name of its own.
NameOf(p) == IF p = 2 THEN 1 ELSE p

\* The track listing the remote source holds for playlist p: two items, each
\* a Spotify track id with the added_at of the playlist item.
ItemsOf(p) ==
  << [id |-> ((p - 1) % NumTracks) + 1, added_at |-> p],
     [id |-> (p % NumTracks) + 1, added_at |-> p + 1] >>

\* PlaylistData(playlist, items, error); items is <<>> for None and
\* <<listing>> for a fetched listing.
PlaylistData(p, items, error) == [playlist |-> p, items |-> items, error |-> error]
FetchedOk(p) == PlaylistData(p, <<ItemsOf(p)>>, None)
FetchedErr(p) == PlaylistData(p, <<>>, "error")

\* Library tracks that no Spotify track of the modelled listings matches
\* by name: the track the k-th custom-track directive of a playlist names,
\* and the k-th track of a playlist's rb_playlist_song_queue when the
\* custom-track step is followed on its own.
CustomTrackId(k) == 20 + k
QueueTrack(k) == 30 + k

\* IDs of rb_all_tracks (the Rekordbox library).
rb_all_tracks ==
  {10 + t : t \in {u \in TrackIds : u % 3 # 0}}
    \cup {CustomTrackId(k) : k \in 1..(MaxDirectives + 1)}
    \cup {QueueTrack(k) : k \in 1..MaxQueue}

\* Top result of find_track for Spotify track t over rb_all_tracks (NoneId
\* when find_track returns an empty list): tracks 1, 2, 4, 5.. have a
\* library entry that clears the threshold, tracks 3, 6.. have none.
find_track_top(t) == IF (10 + t) \in rb_all_tracks THEN 10 + t ELSE NoneId

\* The stores as they are on disk when the run starts: the learned id
\* table knows track 1, the missing-track table holds track 2 (ignored by
\* the user, since added to the library) from an earlier run.
DiskTrackIdDb0 == [t \in {1} |-> 11]
DiskMissingDb0 ==
  [t \in {2} |-> [itunes_url |-> None, ignored |-> TRUE, date_added |-> 1]]

\* Python's None for a timestamp (added_at of a playlist item, date_added
\* of a missing-track entry); timestamps are instants 1, 2, ..: the
\* 'Z' spelling of Spotify and the '+00:00' spelling of isoformat() name
\* the same instant and fromisoformat reads both.
NoDate == 0

\* f with key k set to v (dict item assignment).
DictSet(f, k, v) == [x \in (DOMAIN f) \cup {k} |-> IF x = k THEN v ELSE f[x]]
\* f without key k (dict.pop(k, None)).
DictPop(f, k) == [x \in (DOMAIN f) \ {k} |-> f[x]]
\* Python's max on the modelled timestamps.
Max(a, b) == IF a >= b THEN a ELSE b

\* ------------------------------------------------------------ sync_playlist
\* Outcomes of the iTunes lookup of attempt_add_track_to_missing_db: a URL
\* was found, no URL was found (or the lookup failed otherwise), or the
\* lookup raised the JSONDecodeError that signals the rate limit.
LookupOutcomes == {"url", "none", "ratelimit"}

\* The state sync_playlist's track loop works on: the id table, the
\* missing-track table, the rate-limit flag, rb_playlist_song_queue and the
\* playlist's report; find_track_calls and itunes_lookups count the calls
\* of find_track and of the iTunes lookup made so far.
LoopState(ids, missing, rate) ==
  [ids |-> ids, missing |-> missing, rate |-> rate, queue |-> <<>>,
   all_tracks |-> <<>>, missing_count |-> 0,
   find_track_calls |-> 0, itunes_lookups |-> 0]

\* Faulty attempt_add_track_to_missing_db: the rate-limit flag does not
\* keep the lookup from being made.
attempt_add_track_to_missing_db_ignores_flag(st, item, lookup) ==
  LET has_entry == item.id \in DOMAIN st.missing
      existing_url == IF has_entry THEN st.missing[item.id].itunes_url ELSE None
      do_lookup == existing_url = None
      itunes_url == IF existing_url # None THEN existing_url
                    ELSE IF lookup = "url" THEN "url"
                    ELSE None
      existing_date_added ==
        IF has_entry THEN st.missing[item.id].date_added ELSE NoDate
  IN  [st EXCEPT !.rate = st.rate \/ (do_lookup /\ lookup = "ratelimit"),
                 !.itunes_lookups = IF do_lookup THEN @ + 1 ELSE @,
                 !.missing = DictSet(st.missing, item.id,
                    [itunes_url |-> itunes_url, ignored |-> FALSE,
                     date_added |->
                       IF existing_date_added # NoDate /\ item.added_at # NoDate
                         THEN Max(existing_date_added, item.added_at)
                       ELSE item.added_at])]

\* attempt_add_track_to_missing_db for the current item; lookup is what the
\* iTunes lookup answers if it is made.  A date_added that is None is
\* falsy and takes the first-time branch; an added_at that is None makes
\* sp_track_added_at.replace raise inside the try, and the bare except
\* falls back to the playlist date.
attempt_add_track_to_missing_db(st, item, lookup) ==
  LET has_entry == item.id \in DOMAIN st.missing
      existing_url == IF has_entry THEN st.missing[item.id].itunes_url ELSE None
      do_lookup == existing_url = None /\ ~st.rate
      itunes_url == IF existing_url # None THEN existing_url
                    ELSE IF do_lookup /\ lookup = "url" THEN "url"
                    ELSE None
      rate == st.rate \/ (do_lookup /\ lookup = "ratelimit")
      existing_date_added ==
        IF has_entry THEN st.missing[item.id].date_added ELSE NoDate
      final_date_added ==
        IF existing_date_added # NoDate
          THEN IF item.added_at # NoDate
                 THEN Max(existing_date_added, item.added_at)
               ELSE item.added_at
        ELSE item.added_at
  IN  [st EXCEPT !.rate = rate,
                 !.itunes_lookups = IF do_lookup THEN @ + 1 ELSE @,
                 !.missing = DictSet(st.missing, item.id,
                    [itunes_url |-> itunes_url, ignored |-> FALSE,
                     date_added |-> final_date_added])]

\* Faulty pass: the fuzzy search runs before the id table is consulted.
ProcessItem_search_first(st, item, lookup) ==
  LET rb_track_id == IF item.id \in DOMAIN st.ids THEN st.ids[item.id] ELSE NoneId
      id_match == IF rb_track_id \in rb_all_tracks THEN rb_track_id ELSE NoneId
      rb_track == IF id_match # NoneId THEN id_match ELSE find_track_top(item.id)
      st1 == [st EXCEPT !.find_track_calls = @ + 1,
                        !.ids = IF id_match = NoneId /\ rb_track # NoneId
                                  THEN DictSet(st.ids, item.id, rb_track)
                                ELSE @]
      st2 == IF rb_track # NoneId
               THEN [st1 EXCEPT !.missing = DictPop(st1.missing, item.id),
                                !.queue = Append(st1.queue, rb_track)]
             ELSE IF item.id \in DOMAIN st1.missing /\ st1.missing[item.id].ignored
               THEN st1
             ELSE attempt_add_track_to_missing_db(st1, item, lookup)
  IN  [st2 EXCEPT !.all_tracks = Append(st2.all_tracks,
                      [spotify |-> item.id, rekordbox |-> rb_track]),
                  !.missing_count = IF rb_track = NoneId THEN st2.missing_count + 1
                                    ELSE st2.missing_count]

\* Faulty pass: a matched track's missing-track entry is removed only if
\* the entry is not ignored.
ProcessItem_keeps_ignored(st, item, lookup) ==
  LET rb_track_id == IF item.id \in DOMAIN st.ids THEN st.ids[item.id] ELSE NoneId
      id_match == IF rb_track_id \in rb_all_tracks THEN rb_track_id ELSE NoneId
      rb_track == IF id_match # NoneId THEN id_match ELSE find_track_top(item.id)
      st1 == [st EXCEPT !.find_track_calls = IF id_match = NoneId THEN @ + 1 ELSE @,
                        !.ids = IF id_match = NoneId /\ rb_track # NoneId
                                  THEN DictSet(st.ids, item.id, rb_track)
                                ELSE @]
      ignored == item.id \in DOMAIN st1.missing /\ st1.missing[item.id].ignored
      st2 == IF rb_track # NoneId
               THEN [st1 EXCEPT !.missing = IF ignored THEN @
                                            ELSE DictPop(st1.missing, item.id),
                                !.queue = Append(st1.queue, rb_track)]
             ELSE IF ignored THEN st1
             ELSE attempt_add_track_to_missing_db(st1, item, lookup)
  IN  [st2 EXCEPT !.all_tracks = Append(st2.all_tracks,
                      [spotify |-> item.id, rekordbox |-> rb_track]),
                  !.missing_count = IF rb_track = NoneId THEN st2.missing_count + 1
                                    ELSE st2.missing_count]

\* Faulty pass: an unmatched track is recorded as missing whether or not
\* its entry is marked ignored.
ProcessItem_records_ignored(st, item, lookup) ==
  LET rb_track_id == IF item.id \in DOMAIN st.ids THEN st.ids[item.id] ELSE NoneId
      id_match == IF rb_track_id \in rb_all_tracks THEN rb_track_id ELSE NoneId
      rb_track == IF id_match # NoneId THEN id_match ELSE find_track_top(item.id)
      st1 == [st EXCEPT !.find_track_calls = IF id_match = NoneId THEN @ + 1 ELSE @,
                        !.ids = IF id_match = NoneId /\ rb_track # NoneId
                                  THEN DictSet(st.ids, item.id, rb_track)
                                ELSE @]
      st2 == IF rb_track # NoneId
               THEN [st1 EXCEPT !.missing = DictPop(st1.missing, item.id),
                                !.queue = Append(st1.queue, rb_track)]
             ELSE attempt_add_track_to_missing_db(st1, item, lookup)
  IN  [st2 EXCEPT !.all_tracks = Append(st2.all_tracks,
                      [spotify |-> item.id, rekordbox |-> rb_track]),
                  !.missing_count = IF rb_track = NoneId THEN st2.missing_count + 1
                                    ELSE st2.missing_count]

\* Faulty pass: an unmatched track whose entry is marked ignored is not
\* counted in the report's missing tracks.
ProcessItem_ignored_not_counted(st, item, lookup) ==
  LET rb_track_id == IF item.id \in DOMAIN st.ids THEN st.ids[item.id] ELSE NoneId
      id_match == IF rb_track_id \in rb_all_tracks THEN rb_track_id ELSE NoneId
      rb_track == IF id_match # NoneId THEN id_match ELSE find_track_top(item.id)
      st1 == [st EXCEPT !.find_track_calls = IF id_match = NoneId THEN @ + 1 ELSE @,
                        !.ids = IF id_match = NoneId /\ rb_track # NoneId
                                  THEN DictSet(st.ids, item.id, rb_track)
                                ELSE @]
      ignored == item.id \in DOMAIN st1.missing /\ st1.missing[item.id].ignored
      st2 == IF rb_track # NoneId
               THEN [st1 EXCEPT !.missing = DictPop(st1.missing, item.id),
                                !.queue = Append(st1.queue, rb_track)]
             ELSE IF ignored THEN st1
             ELSE attempt_add_track_to_missing_db(st1, item, lookup)
  IN  [st2 EXCEPT !.all_tracks = Append(st2.all_tracks,
                      [spotify |-> item.id, rekordbox |-> rb_track]),
                  !.missing_count = IF rb_track = NoneId /\ ~ignored
                                      THEN st2.missing_count + 1
                                    ELSE st2.missing_count]

\* One pass of the loop over sp_playlist_items: the id lookup, the fuzzy
\* search when no id matches, then either the queueing of the Rekordbox
\* track or the recording of the missing track, and the report entry.
ProcessItem(st, item, lookup) ==
  LET rb_track_id == IF item.id \in DOMAIN st.ids THEN st.ids[item.id] ELSE NoneId
      id_match == IF rb_track_id \in rb_all_tracks THEN rb_track_id ELSE NoneId
      rb_track == IF id_match # NoneId THEN id_match ELSE find_track_top(item.id)
      learned == id_match = NoneId /\ rb_track # NoneId
      st0 == IF id_match = NoneId
               THEN [st EXCEPT !.find_track_calls = @ + 1]
             ELSE st
      st1 == IF learned THEN [st0 EXCEPT !.ids = DictSet(st.ids, item.id, rb_track)]
             ELSE st0
      ignored == item.id \in DOMAIN st1.missing /\ st1.missing[item.id].ignored
      st2 == IF rb_track # NoneId
               THEN [st1 EXCEPT !.missing = DictPop(st1.missing, item.id),
                                !.queue = Append(st1.queue, rb_track)]
             ELSE IF ignored THEN st1
             ELSE attempt_add_track_to_missing_db(st1, item, lookup)
  IN  [st2 EXCEPT !.all_tracks = Append(st2.all_tracks,
                      [spotify |-> item.id, rekordbox |-> rb_track]),
                  !.missing_count = IF rb_track = NoneId THEN st2.missing_count + 1
                                    ELSE st2.missing_count]

RECURSIVE TrackLoop(_, _, _, _)
\* for track_index in range(len(sp_playlist_items)), from index i on.
TrackLoop(st, items, lookups, i) ==
  IF i > Len(items) THEN st
  ELSE TrackLoop(ProcessItem(st, items[i], lookups[i]), items, lookups, i + 1)

\* ------------------------------------------------------------------ state
VARIABLES
  pc,                         \* where the main thread is
  exit_code,                  \* the process's exit code, -1 while it runs
  track_id_db,                \* track_id_db['content']['spotify']
  missing_tracks_db,          \* missing_tracks_db
  itunes_rate_limit_reached,  \* the nonlocal rate-limit flag
  sync_report,                \* sync_report, keyed by playlist name
  disk_track_id_db,           \* track_id_db.yaml
  disk_missing_tracks_db,     \* missing_tracks.yaml
  disk_sync_report,           \* the sync report file, <<>> while unwritten
  rb_playlists,               \* playlists written to Rekordbox, by playlist
  rb_committed,               \* number of rb.commit() calls
  results_queue,              \* results_queue
  playlist_data,              \* playlist_data of the loop body, <<>> if none
  processed_count,            \* processed_count
  fetcher,                    \* state of fetcher_thread
  future,                     \* state of each playlist's future
  finished,                   \* futures completed and not yet yielded
  put_count,                  \* history: results_queue.put calls per playlist
  taken,                      \* history: results_queue.get calls that returned
  error_taken,                \* history: playlists whose tuple, when taken
                              \*   from the queue, carried an error
  fallback_fetches,           \* history: synchronous re-fetches per playlist
  synced,                     \* history: the (playlist, listing) sync_playlist ran on
  skipped,                    \* history: playlists skipped by the consumer
  timed_out,                  \* history: the loop ended on queue.Empty
  interrupted,                \* history: a KeyboardInterrupt was raised
  raised,                     \* history: an Exception reached line 672
  save_count,                 \* history: number of save_dbs() calls
  id_overrides_db,            \* id_overrides_db['content']['spotify']
  disk_id_overrides_db,       \* track_id_db_overrides.yaml
  track_loop,                 \* sync_playlist's track loop followed on its
                              \*   own: the listing left and the loop's
                              \*   locals, <<>> when it is not
  rec,                        \* the custom-track step of sync_playlist
                              \*   followed on its own, <<>> when it is not
  search                      \* calls of find_track followed on their own:
                              \*   the arguments and the results, <<>> when
                              \*   they are not

store_vars == <<track_id_db, missing_tracks_db, itunes_rate_limit_reached,
                sync_report>>
disk_vars == <<disk_track_id_db, disk_missing_tracks_db, disk_sync_report,
               save_count>>
rb_vars == <<rb_playlists, rb_committed>>
loop_vars == <<playlist_data, processed_count, taken, error_taken,
               fallback_fetches, synced,
               skipped, timed_out, raised>>
main_vars == <<pc, exit_code, interrupted>>
pool_vars == <<fetcher, future, finished, put_count>>
overrides_vars == <<id_overrides_db, disk_id_overrides_db>>
unit_vars == <<track_loop, rec, search>>
vars == <<pc, exit_code, track_id_db, missing_tracks_db,
          itunes_rate_limit_reached, sync_report, disk_track_id_db,
          disk_missing_tracks_db, disk_sync_report, rb_playlists, rb_committed,
          results_queue, playlist_data, processed_count, fetcher, future,
          finished, put_count, taken, error_taken, fallback_fetches,
          synced, skipped, timed_out, interrupted, raised, save_count,
          id_overrides_db, disk_id_overrides_db, track_loop, rec, search>>

\* Faulty merge: an entry of the learned table wins over the override.
merge_learned_wins(learned, overrides) ==
  [t \in (DOMAIN learned) \cup (DOMAIN overrides) |->
     IF t \in DOMAIN learned THEN learned[t] ELSE overrides[t]]

\* deepmerge.always_merger.merge(track_id_db, id_overrides_db): the
\* overrides are merged into the learned table, an override winning.
merge(learned, overrides) ==
  [t \in (DOMAIN learned) \cup (DOMAIN overrides) |->
     IF t \in DOMAIN overrides THEN overrides[t] ELSE learned[t]]

\* track_id_db_overrides.yaml as it is on disk.
DiskOverridesDb0 == [t \in {} |-> NoneId]

\* The state once the stores are loaded (lines 119-126) and before the
\* Rekordbox and Spotify set-up.
Init ==
  /\ pc = "setup"
  /\ exit_code = -1
  /\ track_id_db = merge(DiskTrackIdDb0, DiskOverridesDb0)
  /\ missing_tracks_db = DiskMissingDb0
  /\ itunes_rate_limit_reached = FALSE
  /\ sync_report = <<>>
  /\ disk_track_id_db = DiskTrackIdDb0
  /\ disk_missing_tracks_db = DiskMissingDb0
  /\ disk_sync_report = <<>>
  /\ rb_playlists = <<>>
  /\ rb_committed = 0
  /\ results_queue = <<>>
  /\ playlist_data = <<>>
  /\ processed_count = 0
  /\ fetcher = "unstarted"
  /\ future = [p \in sp_target_playlists |-> "unsubmitted"]
  /\ finished = <<>>
  /\ put_count = [p \in sp_target_playlists |-> 0]
  /\ taken = 0
  /\ error_taken = {}
  /\ fallback_fetches = [p \in sp_target_playlists |-> 0]
  /\ synced = {}
  /\ skipped = {}
  /\ timed_out = FALSE
  /\ interrupted = FALSE
  /\ raised = FALSE
  /\ save_count = 0
  /\ id_overrides_db = DiskOverridesDb0
  /\ disk_id_overrides_db = DiskOverridesDb0
  /\ track_loop = <<>>
  /\ rec = <<>>
  /\ search = <<>>

\* total_playlists = len(sp_target_playlists)
total_playlists == Cardinality(sp_target_playlists)

\* The process is still running Python code.
Alive == pc # "dead"

\* -------------------------------------------------- the background pipeline
\* The dict comprehension of playlist_fetcher_worker: every playlist is
\* submitted to the executor (executor.submit is taken not to fail).
FetcherSubmit ==
  /\ Alive /\ fetcher = "started"
  /\ fetcher' = "waiting"
  /\ future' = [p \in sp_target_playlists |-> "pending"]
  /\ UNCHANGED <<overrides_vars, unit_vars>>
  /\ UNCHANGED <<main_vars, store_vars, disk_vars, rb_vars, loop_vars,
                 results_queue, finished, put_count>>

\* The futures a pool thread is running fetch_playlist_with_logging for.
Running == {p \in sp_target_playlists : future[p] = "running"}
Pending == {p \in sp_target_playlists : future[p] = "pending"}

\* A free pool thread takes the next work item (the executor's work queue
\* is first in, first out) while fewer than max_workers threads are busy.
WorkerStart(p) ==
  /\ Alive /\ future[p] = "pending"
  /\ \A q \in Pending : p <= q
  /\ Cardinality(Running) < max_workers
  /\ future' = [future EXCEPT ![p] = "running"]
  /\ UNCHANGED <<overrides_vars, unit_vars>>
  /\ UNCHANGED <<main_vars, store_vars, disk_vars, rb_vars, loop_vars,
                 results_queue, fetcher, finished, put_count>>

\* Outcomes of a future: fetch_playlist_tracks returned the items, it
\* returned the error it caught, or fetch_playlist_with_logging raised; the
\* last two end in the same error tuple and are kept as one future state.
FutureOutcomes == {"ok", "error", "raised"}

\* Faulty worker: besides completing its future it resolves the listing's
\* first track against the library and writes the id table itself.
WorkerFinish_writes_id_db(p, outcome) ==
  /\ Alive /\ future[p] = "running"
  /\ future' = [future EXCEPT ![p] = IF outcome = "ok" THEN "ok" ELSE "failed"]
  /\ finished' = Append(finished, p)
  /\ track_id_db' =
       IF outcome = "ok" /\ find_track_top(ItemsOf(p)[1].id) # NoneId
         THEN DictSet(track_id_db, ItemsOf(p)[1].id, find_track_top(ItemsOf(p)[1].id))
         ELSE track_id_db
  /\ UNCHANGED <<overrides_vars, unit_vars>>
  /\ UNCHANGED <<main_vars, missing_tracks_db, itunes_rate_limit_reached,
                 sync_report, disk_vars, rb_vars, loop_vars, results_queue,
                 fetcher, put_count>>

\* fetch_playlist_with_logging ends and the future completes.
WorkerFinish(p, outcome) ==
  /\ Alive /\ future[p] = "running"
  /\ future' = [future EXCEPT ![p] = IF outcome = "ok" THEN "ok" ELSE "failed"]
  /\ finished' = Append(finished, p)
  /\ UNCHANGED <<overrides_vars, unit_vars>>
  /\ UNCHANGED <<main_vars, store_vars, disk_vars, rb_vars, loop_vars,
                 results_queue, fetcher, put_count>>

\* Faulty as_completed: the future that completed last is yielded first.
as_completed_last(fin) == Len(fin)

\* The index in the finished list of the future as_completed yields next:
\* the one that completed first.
as_completed_next(fin) == 1

\* The tuple the fetcher puts for a completed future: future.result(), or
\* the error tuple built in the except of line 86.
result_of(p, state) == IF state = "ok" THEN FetchedOk(p) ELSE FetchedErr(p)

\* One pass of the as_completed loop: the next completed future's result
\* goes on the queue.
FetcherPut ==
  /\ Alive /\ fetcher = "waiting" /\ finished # <<>>
  /\ LET i == as_completed_next(finished)
         p == finished[i]
     IN /\ results_queue' = Append(results_queue, result_of(p, future[p]))
        /\ finished' = SubSeq(finished, 1, i - 1) \o
                       SubSeq(finished, i + 1, Len(finished))
        /\ future' = [future EXCEPT ![p] = "yielded"]
        /\ put_count' = [put_count EXCEPT ![p] = @ + 1]
  /\ UNCHANGED <<overrides_vars, unit_vars>>
  /\ UNCHANGED <<main_vars, store_vars, disk_vars, rb_vars, loop_vars,
                 fetcher>>

\* as_completed is exhausted, the executor shuts down, the thread ends.
FetcherDone ==
  /\ Alive /\ fetcher = "waiting"
  /\ \A p \in sp_target_playlists : future[p] = "yielded"
  /\ fetcher' = "done"
  /\ UNCHANGED <<overrides_vars, unit_vars>>
  /\ UNCHANGED <<main_vars, store_vars, disk_vars, rb_vars, loop_vars,
                 results_queue, future, finished, put_count>>

\* ------------------------------------------------------------ main thread
\* The set-up between the loading of the stores and the try of line 605
\* succeeds (Rekordbox keys, Spotify login, the target playlists).
SetupOk ==
  /\ pc = "setup"
  /\ pc' = "start"
  /\ UNCHANGED <<overrides_vars, unit_vars>>
  /\ UNCHANGED <<exit_code, interrupted, store_vars, disk_vars, rb_vars,
                 loop_vars, results_queue, pool_vars>>

\* The set-up raises (the ValueError of line 152 or 158): the exception
\* leaves the command and main's handler exits with 1.
SetupFails ==
  /\ pc = "setup"
  /\ pc' = "exiting"
  /\ exit_code' = EXIT_ERROR
  /\ UNCHANGED <<overrides_vars, unit_vars>>
  /\ UNCHANGED <<interrupted, store_vars, disk_vars, rb_vars, loop_vars,
                 results_queue, pool_vars>>

\* Lines 606-621: the queue is created and the fetcher thread started.
StartFetcher ==
  /\ pc = "start"
  /\ pc' = "loop"
  /\ fetcher' = "started"
  /\ UNCHANGED <<overrides_vars, unit_vars>>
  /\ UNCHANGED <<exit_code, interrupted, store_vars, disk_vars, rb_vars,
                 loop_vars, results_queue, future, finished, put_count>>

\* Faulty loop condition: the loop ends one result early.
LoopCondition_off_by_one(count, total) == count + 1 < total

\* while processed_count < total_playlists
LoopCondition(count, total) == count < total

\* results_queue.get(timeout=30) returns the oldest tuple.
GetResult ==
  /\ pc = "loop" /\ LoopCondition(processed_count, total_playlists)
  /\ results_queue # <<>>
  /\ playlist_data' = <<Head(results_queue)>>
  /\ results_queue' = Tail(results_queue)
  /\ taken' = taken + 1
  /\ error_taken' = IF Head(results_queue).error # None
                      THEN error_taken \cup {Head(results_queue).playlist}
                      ELSE error_taken
  /\ pc' = "have"
  /\ UNCHANGED <<overrides_vars, unit_vars>>
  /\ UNCHANGED <<exit_code, interrupted, store_vars, disk_vars, rb_vars,
                 processed_count, fallback_fetches, synced, skipped,
                 timed_out, raised, pool_vars>>

\* Why no tuple arrives for the 30 seconds of the timeout: the fetcher thread
\* has submitted the playlists and put every completed future's tuple, the
\* pool has started every work item it has a free thread for, and what is
\* left are fetches that take their time (or nothing at all).
NothingArrivesSoon ==
  /\ fetcher \in {"waiting", "done"}
  /\ finished = <<>>
  /\ Pending = {} \/ Cardinality(Running) >= max_workers

\* Faulty timeout handling: the futures that have not started are cancelled
\* when the consumer stops waiting.
GetTimesOut_cancels ==
  /\ pc = "loop" /\ LoopCondition(processed_count, total_playlists)
  /\ results_queue = <<>>
  /\ NothingArrivesSoon
  /\ timed_out' = TRUE
  /\ pc' = "join"
  /\ future' = [p \in sp_target_playlists |->
                  IF future[p] = "pending" THEN "cancelled" ELSE future[p]]
  /\ UNCHANGED <<overrides_vars, unit_vars>>
  /\ UNCHANGED <<exit_code, interrupted, store_vars, disk_vars, rb_vars,
                 results_queue, playlist_data, processed_count, taken,
                 error_taken, fallback_fetches, synced, skipped, raised,
                 fetcher, finished, put_count>>

\* results_queue.get(timeout=30) raises queue.Empty: nothing arrived for
\* 30 seconds; the except of line 657 breaks out of the loop.
GetTimesOut ==
  /\ pc = "loop" /\ LoopCondition(processed_count, total_playlists)
  /\ results_queue = <<>>
  /\ NothingArrivesSoon
  /\ timed_out' = TRUE
  /\ pc' = "join"
  /\ UNCHANGED <<overrides_vars, unit_vars>>
  /\ UNCHANGED <<exit_code, interrupted, store_vars, disk_vars, rb_vars,
                 results_queue, playlist_data, processed_count, taken,
                 error_taken, fallback_fetches, synced, skipped, raised,
                 pool_vars>>

\* The loop condition is false: the loop ends.
LoopEnds ==
  /\ pc = "loop" /\ ~LoopCondition(processed_count, total_playlists)
  /\ pc' = "join"
  /\ UNCHANGED <<overrides_vars, unit_vars>>
  /\ UNCHANGED <<exit_code, interrupted, store_vars, disk_vars, rb_vars,
                 loop_vars, results_queue, pool_vars>>

\* Outcomes of the synchronous fetch_playlist_tracks of line 643.
FallbackOutcomes == {"ok", "error"}

\* Faulty fallback without the continue of line 648: after a failed
\* re-fetch the body goes on to sync_playlist, which raises on the None
\* listing.
Fallback_no_continue(outcome) ==
  /\ pc = "have" /\ playlist_data[1].error # None
  /\ LET p == playlist_data[1].playlist
     IN /\ fallback_fetches' = [fallback_fetches EXCEPT ![p] = @ + 1]
        /\ IF outcome = "error"
             THEN /\ processed_count' = processed_count + 1
                  /\ skipped' = skipped \cup {p}
                  /\ playlist_data' = <<>>
                  /\ raised' = TRUE
                  /\ pc' = "except"
             ELSE /\ playlist_data' = <<FetchedOk(p)>>
                  /\ UNCHANGED <<processed_count, skipped, pc, raised>>
  /\ UNCHANGED <<overrides_vars, unit_vars>>
  /\ UNCHANGED <<exit_code, interrupted, store_vars, disk_vars, rb_vars,
                 results_queue, taken, error_taken, synced, timed_out,
                 pool_vars>>

\* Faulty fallback without the processed_count += 1 of line 647: a skipped
\* playlist is not counted.
Fallback_skip_uncounted(outcome) ==
  /\ pc = "have" /\ playlist_data[1].error # None
  /\ LET p == playlist_data[1].playlist
     IN /\ fallback_fetches' = [fallback_fetches EXCEPT ![p] = @ + 1]
        /\ IF outcome = "error"
             THEN /\ skipped' = skipped \cup {p}
                  /\ playlist_data' = <<>>
                  /\ pc' = "loop"
             ELSE /\ playlist_data' = <<FetchedOk(p)>>
                  /\ UNCHANGED <<skipped, pc>>
  /\ UNCHANGED <<overrides_vars, unit_vars>>
  /\ UNCHANGED <<exit_code, interrupted, store_vars, disk_vars, rb_vars,
                 results_queue, processed_count, taken, error_taken, synced,
                 timed_out, raised, pool_vars>>

\* Lines 638-650: the tuple carries an error, the playlist is fetched
\* again on the main thread; a second error skips the playlist.
Fallback(outcome) ==
  /\ pc = "have" /\ playlist_data[1].error # None
  /\ LET p == playlist_data[1].playlist
     IN /\ fallback_fetches' = [fallback_fetches EXCEPT ![p] = @ + 1]
        /\ IF outcome = "error"
             THEN /\ processed_count' = processed_count + 1
                  /\ skipped' = skipped \cup {p}
                  /\ playlist_data' = <<>>
                  /\ pc' = "loop"
             ELSE /\ playlist_data' = <<FetchedOk(p)>>
                  /\ UNCHANGED <<processed_count, skipped, pc>>
  /\ UNCHANGED <<overrides_vars, unit_vars>>
  /\ UNCHANGED <<exit_code, interrupted, store_vars, disk_vars, rb_vars,
                 results_queue, taken, error_taken, synced, timed_out, raised,
                 pool_vars>>

\* Where sync_playlist ends: it returns its report, it raises before the
\* track loop (len() of a None listing, a Rekordbox error while the
\* playlist is created) or it raises after the loop (the ValueError of
\* line 442, a Rekordbox error while the tracks are added).
SyncOutcomes == {"returns", "raises_before", "raises_after"}

\* Lines 653-655: sync_playlist runs on the tuple's listing; its report is
\* filed under the playlist's name.
SyncPlaylist(outcome, lookups) ==
  /\ pc = "have" /\ playlist_data[1].error = None
  /\ playlist_data[1].items = <<>> => outcome = "raises_before"
  /\ LET p == playlist_data[1].playlist
         items == playlist_data[1].items[1]
         st == TrackLoop(LoopState(track_id_db, missing_tracks_db,
                                   itunes_rate_limit_reached),
                         items, lookups, 1)
     IN IF outcome = "raises_before"
          THEN /\ pc' = "except"
               /\ raised' = TRUE
               /\ UNCHANGED <<store_vars, rb_playlists, processed_count, synced>>
          ELSE /\ track_id_db' = st.ids
               /\ missing_tracks_db' = st.missing
               /\ itunes_rate_limit_reached' = st.rate
               /\ synced' = synced \cup {[playlist |-> p, items |-> items]}
               /\ IF outcome = "raises_after"
                    THEN /\ pc' = "except"
                         /\ raised' = TRUE
                         /\ UNCHANGED <<sync_report, rb_playlists, processed_count>>
                    ELSE /\ pc' = "loop"
                         /\ rb_playlists' = DictSet(rb_playlists, p, st.queue)
                         /\ sync_report' = DictSet(sync_report, NameOf(p),
                              [all_tracks |-> st.all_tracks,
                               missing_count |-> st.missing_count])
                         /\ processed_count' = processed_count + 1
                         /\ UNCHANGED raised
  /\ playlist_data' = <<>>
  /\ UNCHANGED <<overrides_vars, unit_vars>>
  /\ UNCHANGED <<exit_code, interrupted, disk_vars, rb_committed,
                 results_queue, taken, error_taken, fallback_fetches, skipped,
                 timed_out, pool_vars>>

\* Lines 661-671: fetcher_thread.join(timeout=10) returns, whether or not
\* the fetcher has ended.
JoinFetcher ==
  /\ pc = "join"
  /\ pc' = "save"
  /\ UNCHANGED <<overrides_vars, unit_vars>>
  /\ UNCHANGED <<exit_code, interrupted, store_vars, disk_vars, rb_vars,
                 loop_vars, results_queue, pool_vars>>

\* Faulty save_dbs: the missing-track table is not written.
save_dbs_without_missing ==
  /\ disk_track_id_db' = track_id_db
  /\ disk_sync_report' = <<sync_report>>
  /\ save_count' = save_count + 1
  /\ UNCHANGED disk_missing_tracks_db

\* save_dbs(): the three stores are written to disk.
save_dbs ==
  /\ disk_track_id_db' = track_id_db
  /\ disk_missing_tracks_db' = missing_tracks_db
  /\ disk_sync_report' = <<sync_report>>
  /\ save_count' = save_count + 1

\* Line 679: save_dbs() after the loop.
SaveAfterLoop ==
  /\ pc = "save"
  /\ save_dbs
  /\ pc' = "commit"
  /\ UNCHANGED <<overrides_vars, unit_vars>>
  /\ UNCHANGED <<exit_code, interrupted, store_vars, rb_vars, loop_vars,
                 results_queue, pool_vars>>

\* Lines 680-682: rb.commit(); the command returns to main.
Commit ==
  /\ pc = "commit"
  /\ rb_committed' = rb_committed + 1
  /\ pc' = "returned"
  /\ UNCHANGED <<overrides_vars, unit_vars>>
  /\ UNCHANGED <<exit_code, interrupted, store_vars, disk_vars, rb_playlists,
                 loop_vars, results_queue, pool_vars>>

\* main, lines 168-169: sys.exit(0) after the command returned.
MainExit ==
  /\ pc = "returned"
  /\ pc' = "exiting"
  /\ exit_code' = EXIT_OK
  /\ UNCHANGED <<overrides_vars, unit_vars>>
  /\ UNCHANGED <<interrupted, store_vars, disk_vars, rb_vars, loop_vars,
                 results_queue, pool_vars>>

\* Faulty handler: the Rekordbox transaction is committed once the stores
\* are saved, as on the normal path.
ExceptHandler_commits ==
  /\ pc = "except"
  /\ save_dbs
  /\ rb_committed' = rb_committed + 1
  /\ pc' = "exiting"
  /\ exit_code' = EXIT_SYNC_EXCEPT
  /\ UNCHANGED <<overrides_vars, unit_vars>>
  /\ UNCHANGED <<interrupted, store_vars, rb_playlists, loop_vars,
                 results_queue, pool_vars>>

\* Lines 672-677: the handler of an Exception raised in the try block
\* saves the stores and exits with 130; SystemExit passes main's handlers.
ExceptHandler ==
  /\ pc = "except"
  /\ save_dbs
  /\ pc' = "exiting"
  /\ exit_code' = EXIT_SYNC_EXCEPT
  /\ UNCHANGED <<overrides_vars, unit_vars>>
  /\ UNCHANGED <<interrupted, store_vars, rb_vars, loop_vars, results_queue,
                 pool_vars>>

\* Where the main thread can be when Ctrl-C raises KeyboardInterrupt in it.
Interruptible == {"setup", "loop", "have", "join", "save", "except"}

\* KeyboardInterrupt is no Exception: the except of line 672 does not
\* catch it, it leaves the command, and main's handler (lines 155-160,
\* with cache = None for the sync command) exits with 0.
KeyboardInterrupt ==
  /\ pc \in Interruptible
  /\ interrupted' = TRUE
  /\ pc' = "exiting"
  /\ exit_code' = EXIT_OK
  /\ UNCHANGED <<overrides_vars, unit_vars>>
  /\ UNCHANGED <<store_vars, disk_vars, rb_vars, loop_vars, results_queue,
                 pool_vars>>

\* The interpreter shuts down: it waits for the executor's pool threads,
\* which run every submitted work item, and then ends the process; the
\* fetcher thread is a daemon and is abandoned wherever it is.
ProcessExit ==
  /\ pc = "exiting"
  /\ Running = {} /\ Pending = {}
  /\ pc' = "dead"
  /\ UNCHANGED <<overrides_vars, unit_vars>>
  /\ UNCHANGED <<exit_code, interrupted, store_vars, disk_vars, rb_vars,
                 loop_vars, results_queue, pool_vars>>

Next ==
  \/ FetcherSubmit
  \/ \E p \in sp_target_playlists : WorkerStart(p)
  \/ \E p \in sp_target_playlists : \E o \in FutureOutcomes : WorkerFinish(p, o)
  \/ FetcherPut
  \/ FetcherDone
  \/ SetupOk
  \/ SetupFails
  \/ StartFetcher
  \/ GetResult
  \/ GetTimesOut
  \/ LoopEnds
  \/ \E o \in FallbackOutcomes : Fallback(o)
  \/ \E o \in SyncOutcomes :
       \E lookups \in [1..Len(ItemsOf(1)) -> LookupOutcomes] : SyncPlaylist(o, lookups)
  \/ JoinFetcher
  \/ SaveAfterLoop
  \/ Commit
  \/ MainExit
  \/ ExceptHandler
  \/ KeyboardInterrupt
  \/ ProcessExit

Spec == Init /\ [][Next]_vars

\* ================================================================ properties
\* The drain loop has ended and the code after it (lines 661-682) runs.
AfterLoop == pc \in {"join", "save", "commit", "returned"}
\* The playlists sync_playlist ran on.
SyncedPlaylists == {r.playlist : r \in synced}

C2_ErrorTupleOneFallbackThenSyncOrSkip ==
  /\ [](\A p \in sp_target_playlists :
          /\ fallback_fetches[p] <= 1
          /\ fallback_fetches[p] = 1 => p \in error_taken
          /\ (p \in error_taken /\ fallback_fetches[p] = 0) =>
               /\ playlist_data # <<>>
               /\ playlist_data[1].playlist = p
               /\ playlist_data[1].error # None
          /\ (p \in error_taken /\ fallback_fetches[p] = 1 /\ p \notin skipped) =>
               \/ playlist_data = <<FetchedOk(p)>>
               \/ p \in SyncedPlaylists
               \/ raised
          /\ p \in skipped =>
               /\ fallback_fetches[p] = 1
               /\ p \notin SyncedPlaylists
               /\ p \notin DOMAIN rb_playlists
               /\ NameOf(p) \in DOMAIN sync_report =>
                    \E q \in SyncedPlaylists : q # p /\ NameOf(q) = NameOf(p))
  /\ [](\A r \in synced : r.items = ItemsOf(r.playlist))
  /\ [][\A p \in sp_target_playlists :
          (p \in skipped' /\ p \notin skipped) =>
            /\ pc' = "loop"
            /\ processed_count' = processed_count + 1
            /\ UNCHANGED <<store_vars, disk_vars, rb_vars>>]_vars

\* C2 witness: one playlist was skipped after two failed fetches, another
\* was synced after a successful re-fetch, and every playlist is handled.
C2_Witness ==
  /\ processed_count = total_playlists
  /\ \E p \in skipped : fallback_fetches[p] = 1
  /\ \E q \in SyncedPlaylists : q \in error_taken /\ q \in DOMAIN rb_playlists

\* C3 as claimed: whenever the drain loop has ended, the number of results
\* taken from the queue equals the number of playlists submitted.
C3_DrainEndsWithAllResultsTaken ==
  AfterLoop => taken = total_playlists

\* C3 as amended: when the drain loop has ended through its loop condition
\* every submitted playlist's result was taken; when it has ended through
\* the queue timeout fewer were.
C3_DrainEndsWithAllResultsTakenUnlessTimeout ==
  /\ (AfterLoop /\ ~timed_out) =>
       /\ taken = total_playlists
       /\ processed_count = total_playlists
       /\ results_queue = <<>>
  /\ timed_out => taken < total_playlists /\ processed_count = taken

\* C3 witness: the loop has ended through its condition.
C3_Witness ==
  pc = "join" /\ ~timed_out /\ taken = total_playlists

\* C4 as claimed: with F playlists failing both fetches the final
\* processed count is the number of playlists minus F.
C4_FinalCountExcludesSkipped ==
  (AfterLoop /\ ~timed_out) =>
    processed_count = total_playlists - Cardinality(skipped)

\* C4 as amended: a skipped playlist is counted too. When the loop has
\* ended through its condition processed_count is the number of playlists,
\* of which all but the skipped ones were synced and written; and once
\* every result has been taken and handled the loop condition is false, so
\* the consumer does not wait on the queue again.
C4_FinalCountIncludesSkipped ==
  /\ (AfterLoop /\ ~timed_out) =>
       /\ processed_count = total_playlists
       /\ Cardinality(SyncedPlaylists) = total_playlists - Cardinality(skipped)
       /\ DOMAIN rb_playlists = sp_target_playlists \ skipped
       /\ skipped \subseteq error_taken
  /\ (pc = "loop" /\ taken = total_playlists) =>
       ~LoopCondition(processed_count, total_playlists)

\* C4 witness: the loop has ended through its condition with exactly one
\* playlist skipped.
C4_Witness ==
  AfterLoop /\ ~timed_out /\ Cardinality(skipped) = 1

\* The process is exiting or gone.
Exited == pc \in {"exiting", "dead"}
\* The run has entered the try block of line 605 (the fetcher was started).
RunStarted == fetcher # "unstarted"

\* C5 as claimed: on every exit path of the sync run (normal completion,
\* Ctrl-C, an uncaught error) save_dbs has run before the process exits.
\* Stated for the exits after the run entered its try block.
C5_SavedOnEveryExit ==
  (Exited /\ RunStarted) => save_count >= 1

\* C6 as claimed: after a user interruption the stores are persisted and
\* the exit code differs from that of a successful run and from those of
\* a run aborted by an error.
C6_InterruptSavesAndExitsDistinct ==
  (Exited /\ interrupted) =>
    /\ save_count >= 1
    /\ exit_code # EXIT_OK
    /\ exit_code # EXIT_ERROR
    /\ exit_code # EXIT_SYNC_EXCEPT

\* The main thread is still before any save_dbs() call of the run.
BeforeSave == pc \in {"setup", "start", "loop", "have", "join", "save", "except"}

C8_AfterTimeoutEveryTuplePut ==
  (timed_out /\ pc = "dead" /\ ~interrupted) =>
    \A p \in sp_target_playlists : put_count[p] = 1

\* C8 as amended: a consumer timeout cancels nothing. From the timeout on
\* no future is cancelled (a future not yet completed stays pending or
\* running until it completes), every fetch has completed when the process
\* ends, and a tuple put after the timeout stays on the queue, the consumer
\* taking nothing more; a completed fetch's tuple may still be missing from
\* the queue when the process ends, the fetcher being a daemon thread.
C8_TimeoutCancelsNothing ==
  /\ [][timed_out' =>
          /\ \A p \in sp_target_playlists :
               /\ future[p] = "pending" => future'[p] \in {"pending", "running"}
               /\ future[p] = "running" => future'[p] \in {"running", "ok", "failed"}
               /\ future[p] \in {"ok", "failed"} =>
                    future'[p] \in {future[p], "yielded"}
          /\ timed_out =>
               /\ taken' = taken
               /\ Len(results_queue') >= Len(results_queue)
               /\ SubSeq(results_queue', 1, Len(results_queue)) = results_queue]_vars
  /\ []((timed_out /\ pc = "dead") =>
          \A p \in sp_target_playlists : future[p] \in {"ok", "failed", "yielded"})

\* C8 witness: after the timeout, with the main thread past the loop, a
\* fetch is still running and a tuple put since the timeout lies on the
\* queue.
C8_Witness ==
  /\ timed_out /\ pc \in {"save", "commit", "returned", "exiting"}
  /\ Running # {}
  /\ results_queue # <<>>

\* A step the main thread takes: it moves on, or replaces playlist_data.
MainThreadStep == pc' # pc \/ playlist_data' # playlist_data
\* A step a pool thread or the fetcher thread takes on the futures.
PoolStep == future' # future \/ finished' # finished

\* C9: the id table and the missing-track table (and their files) change
\* only in steps of the main thread, never in a step in which a pool
\* thread or the fetcher thread acts; such a step changes, of the state
\* shared with the main thread, the results queue only, and only by
\* appending a tuple.
C9_StoresWrittenByConsumerOnly ==
  /\ [][(<<track_id_db, missing_tracks_db>>' # <<track_id_db, missing_tracks_db>>
          \/ disk_vars' # disk_vars) =>
          MainThreadStep /\ ~PoolStep]_vars
  /\ [][PoolStep =>
          /\ UNCHANGED <<main_vars, store_vars, disk_vars, rb_vars, loop_vars>>
          /\ \/ results_queue' = results_queue
             \/ /\ Len(results_queue') = Len(results_queue) + 1
                /\ SubSeq(results_queue', 1, Len(results_queue)) = results_queue]_vars

\* C9 witness: the consumer has changed both tables while pool threads are
\* fetching and a completed future waits to be put.
C9_Witness ==
  /\ track_id_db # DiskTrackIdDb0
  /\ missing_tracks_db # DiskMissingDb0
  /\ Running # {}
  /\ finished # <<>>

\* C10: at most 3 fetches are in progress in the pool at any moment.
C10_AtMostThreeFetchesRunning ==
  Cardinality(Running) <= 3

\* C10 witness: three fetches are running while a submitted playlist waits
\* for a free pool thread.
C10_Witness ==
  Cardinality(Running) = 3 /\ Pending # {}

\* ================================================ the track loop on its own
\* sync_playlist's loop over sp_playlist_items and the save_dbs() that ends
\* the run, started from every combination of stores a run can load.

\* Longest listing of playlist items the loop is followed over.
MaxListing == 2

\* The Spotify tracks of the listings: track 2 has a fuzzy match in the
\* library, tracks 3 and 6 have none.
StoreTrackIds == {2, 3, 6}

\* A Rekordbox id that no track of rb_all_tracks carries (the track was
\* deleted from the library, or the id was mistyped in the YAML file).
StaleId == 99

\* Values of the learned table and of the override table on disk: a library
\* track each (not the same one) or the stale id.
LearnedIds == {12, StaleId}
OverrideIds == {11, StaleId}

\* The dicts with keys among keys and values in values.
Dicts(keys, values) == UNION {[D -> values] : D \in SUBSET keys}

\* added_at of a playlist item: an earlier or a later instant, or None.
AddedAts == {NoDate, 1, 2}

\* Entries of missing_tracks.yaml, as an earlier run wrote them and the
\* user edited them (the ignored flag).
MissingEntries ==
  [itunes_url : {None, "url"}, ignored : BOOLEAN, date_added : AddedAts]

\* The listings of at most n playlist items.
Listings(items, n) == UNION {[1..k -> items] : k \in 0..n}

\* The value every variable of the fetch pipeline and of the consumer loop
\* has while a part of sync_playlist is followed on its own.
PipelineIdle ==
  /\ exit_code = -1
  /\ sync_report = <<>>
  /\ disk_sync_report = <<>>
  /\ rb_playlists = <<>>
  /\ rb_committed = 0
  /\ results_queue = <<>>
  /\ playlist_data = <<>>
  /\ processed_count = 0
  /\ fetcher = "unstarted"
  /\ future = [p \in sp_target_playlists |-> "unsubmitted"]
  /\ finished = <<>>
  /\ put_count = [p \in sp_target_playlists |-> 0]
  /\ taken = 0
  /\ error_taken = {}
  /\ fallback_fetches = [p \in sp_target_playlists |-> 0]
  /\ synced = {}
  /\ skipped = {}
  /\ timed_out = FALSE
  /\ interrupted = FALSE
  /\ raised = FALSE
  /\ save_count = 0

\* The stores once loaded (lines 122-125), and the listing.
TrackLoaded(learned, overrides, missing, listing) ==
  /\ disk_track_id_db = learned
  /\ disk_id_overrides_db = overrides
  /\ id_overrides_db = overrides
  /\ track_id_db = merge(learned, overrides)
  /\ disk_missing_tracks_db = missing
  /\ missing_tracks_db = missing
  /\ itunes_rate_limit_reached = FALSE
  /\ track_loop = [items |-> listing, learned |-> learned, queue |-> <<>>,
                   all_tracks |-> <<>>, missing_count |-> 0,
                   find_track_calls |-> 0, itunes_lookups |-> 0]

\* The missing-track table holding the entry of c[t] for every track t
\* that has one; c[t] is <<>> or <<entry>>.
MissingTable(c) ==
  [t \in {u \in DOMAIN c : c[u] # <<>>} |-> c[t][1]]

\* No entry, or one of entries.
Optional(entries) == {<<>>} \cup {<<e>> : e \in entries}

\* Two families of loaded stores.  Either any learned and override tables
\* over tracks 2 and 3, with the missing-track table empty; or empty id
\* tables with any entry for track 3, for track 2 an entry without a link
\* (ignored or not) and for track 6 an entry with a link, or none.
TrackInit ==
  /\ pc = "track_loop"
  /\ PipelineIdle
  /\ rec = <<>>
  /\ search = <<>>
  /\ \/ \E learned \in Dicts({2, 3}, LearnedIds),
           overrides \in Dicts({2, 3}, OverrideIds),
           listing \in Listings([id : {2, 3}, added_at : {1}], MaxListing) :
          TrackLoaded(learned, overrides, <<>>, listing)
     \/ \E c2 \in Optional({e \in MissingEntries :
                              e.itunes_url = None /\ e.date_added = 1}),
           c3 \in Optional(MissingEntries),
           c6 \in Optional({e \in MissingEntries :
                              e.itunes_url = "url" /\ ~e.ignored
                              /\ e.date_added = 1}),
           listing \in Listings([id : StoreTrackIds, added_at : AddedAts],
                                MaxListing) :
          TrackLoaded(<<>>, <<>>, MissingTable(2 :> c2 @@ 3 :> c3 @@ 6 :> c6),
                      listing)

\* The loop's state before the pass over the next item.
TrackLoopState ==
  [ids |-> track_id_db, missing |-> missing_tracks_db,
   rate |-> itunes_rate_limit_reached, queue |-> track_loop.queue,
   all_tracks |-> track_loop.all_tracks,
   missing_count |-> track_loop.missing_count,
   find_track_calls |-> track_loop.find_track_calls,
   itunes_lookups |-> track_loop.itunes_lookups]

\* One pass of the loop of lines 274-399 over the next item of the listing.
TrackStep(lookup) ==
  /\ pc = "track_loop"
  /\ track_loop.items # <<>>
  /\ LET st == ProcessItem(TrackLoopState, Head(track_loop.items), lookup)
     IN  /\ track_id_db' = st.ids
         /\ missing_tracks_db' = st.missing
         /\ itunes_rate_limit_reached' = st.rate
         /\ track_loop' = [track_loop EXCEPT
                             !.items = Tail(track_loop.items),
                             !.queue = st.queue,
                             !.all_tracks = st.all_tracks,
                             !.missing_count = st.missing_count,
                             !.find_track_calls = st.find_track_calls,
                             !.itunes_lookups = st.itunes_lookups]
  /\ UNCHANGED <<main_vars, sync_report, disk_vars, rb_vars, loop_vars,
                 results_queue, pool_vars, overrides_vars, rec, search>>

\* The listing is exhausted and the run ends: save_dbs() (line 679).
TrackSave ==
  /\ pc = "track_loop"
  /\ track_loop.items = <<>>
  /\ save_dbs
  /\ pc' = "saved"
  /\ UNCHANGED <<exit_code, interrupted, store_vars, rb_vars, loop_vars,
                 results_queue, pool_vars, overrides_vars, unit_vars>>

TrackNext ==
  \/ \E lookup \in LookupOutcomes : TrackStep(lookup)
  \/ TrackSave

TrackSpec == TrackInit /\ [][TrackNext]_vars

\* The Spotify tracks the loop has passed so far.
Processed == {track_loop.all_tracks[i].spotify : i \in DOMAIN track_loop.all_tracks}

\* C11 as stated: in every state of the run the in-memory id table maps
\* every Spotify id of the override table to the override's Rekordbox id.
C11_OverrideAlwaysWins ==
  \A t \in DOMAIN id_overrides_db :
    t \in DOMAIN track_id_db /\ track_id_db[t] = id_overrides_db[t]

\* C11: after the load the in-memory id table maps every Spotify id of the
\* override table to the override's Rekordbox id, and it keeps doing so
\* while that id is the id of a library track (or the fuzzy search finds
\* nothing for the track); otherwise the pass over the track replaces the
\* entry by the fuzzy match.
C11_OverrideWinsWhileItsTrackIsInTheLibrary ==
  \A t \in DOMAIN id_overrides_db :
    /\ t \in DOMAIN track_id_db
    /\ IF \/ t \notin Processed
          \/ id_overrides_db[t] \in rb_all_tracks
          \/ find_track_top(t) = NoneId
         THEN track_id_db[t] = id_overrides_db[t]
       ELSE track_id_db[t] = find_track_top(t)

\* C11 witness: a track whose override differs from the learned entry has
\* been passed by the loop, matched by the override's id, and the table
\* still holds the override.
C11_Witness ==
  \E t \in DOMAIN id_overrides_db :
    /\ t \in DOMAIN track_loop.learned
    /\ track_loop.learned[t] # id_overrides_db[t]
    /\ t \in Processed
    /\ id_overrides_db[t] \in rb_all_tracks
    /\ track_id_db[t] = id_overrides_db[t]
    /\ track_loop.queue # <<>>

\* C12: once save_dbs() has run, track_id_db_overrides.yaml is as it was
\* loaded, and track_id_db.yaml holds no entry that came from the override
\* table alone (a Spotify id the learned table did not have when loaded and
\* for which the run recorded no match, the loop never passing the track).
C12_PersistWritesLearnedOnly ==
  pc = "saved" =>
    /\ disk_id_overrides_db = id_overrides_db
    /\ \A t \in DOMAIN id_overrides_db :
         (t \notin DOMAIN track_loop.learned /\ t \notin Processed)
           => t \notin DOMAIN disk_track_id_db

\* The step is a pass of the track loop over the item at the head of the
\* listing.
PassesNextItem ==
  /\ pc = "track_loop"
  /\ track_loop.items # <<>>
  /\ track_loop'.items = Tail(track_loop.items)

\* C13 as stated: a pass over a track whose Spotify id is in the id table
\* does not call find_track.
C13_CachedIdNeverSearched ==
  [][(PassesNextItem /\ Head(track_loop.items).id \in DOMAIN track_id_db)
       => track_loop'.find_track_calls = track_loop.find_track_calls]_vars

\* C13: a pass over a track whose Spotify id is in the id table, mapped to
\* the id of a track of the library, does not call find_track; a pass over
\* any other track (no entry, or an entry whose Rekordbox id no library
\* track carries) calls it once.
C13_CachedLibraryIdNeverSearched ==
  [][PassesNextItem =>
       LET t == Head(track_loop.items).id
       IN  IF t \in DOMAIN track_id_db /\ track_id_db[t] \in rb_all_tracks
             THEN track_loop'.find_track_calls = track_loop.find_track_calls
           ELSE track_loop'.find_track_calls = track_loop.find_track_calls + 1]_vars

\* C13 witness: the loop has passed a track the loaded tables map to a
\* library track, and find_track has not been called.
C13_Witness ==
  /\ track_loop.find_track_calls = 0
  /\ \E t \in Processed :
       /\ t \in DOMAIN track_loop.learned \cup DOMAIN id_overrides_db
       /\ track_id_db[t] \in rb_all_tracks
       /\ track_loop.queue # <<>>

\* The Spotify tracks the loop has passed and matched to a library track.
Matched ==
  {track_loop.all_tracks[i].spotify :
     i \in {j \in DOMAIN track_loop.all_tracks :
              track_loop.all_tracks[j].rekordbox # NoneId}}

\* C14: a track that the loop has matched has no entry in the missing-track
\* table, whatever entry an earlier recording left for it and whether or
\* not that entry was marked ignored.
C14_MatchedTrackHasNoMissingEntry ==
  \A t \in Matched : t \notin DOMAIN missing_tracks_db

\* C14 witness: the loop has matched a track for which the loaded table
\* held an entry marked ignored, and the entry is gone.
C14_Witness ==
  /\ pc = "track_loop"
  /\ \E t \in Matched :
       t \in DOMAIN disk_missing_tracks_db /\ disk_missing_tracks_db[t].ignored
       /\ t \notin DOMAIN missing_tracks_db

\* The step is a pass of the loop that calls
\* attempt_add_track_to_missing_db: the track at the head of the listing is
\* not matched and its entry, if it has one, is not marked ignored.
RecordsMissing ==
  /\ PassesNextItem
  /\ track_loop'.missing_count = track_loop.missing_count + 1
  /\ LET t == Head(track_loop.items).id
     IN  ~(t \in DOMAIN missing_tracks_db /\ missing_tracks_db[t].ignored)

\* C15 as stated: once the rate-limit flag is set it stays set and no
\* iTunes lookup is made, and a track recorded as missing from then on has
\* an entry whose iTunes URL is None.
C15_AfterRateLimitEveryLinkNull ==
  [][itunes_rate_limit_reached =>
       /\ itunes_rate_limit_reached'
       /\ track_loop'.itunes_lookups = track_loop.itunes_lookups
       /\ RecordsMissing =>
            LET t == Head(track_loop.items).id
            IN  /\ t \in DOMAIN missing_tracks_db'
                /\ missing_tracks_db'[t].itunes_url = None]_vars

\* C15: the rate-limit flag is set only by a pass that makes an iTunes
\* lookup; once the flag is set it stays set and no iTunes lookup is made,
\* and a track recorded as missing from then on has an entry whose iTunes
\* URL is the one its entry already held, None if it had no entry or no URL.
C15_AfterRateLimitNoLookupAndLinkKept ==
  [][/\ (~itunes_rate_limit_reached /\ itunes_rate_limit_reached')
          => track_loop'.itunes_lookups = track_loop.itunes_lookups + 1
     /\ itunes_rate_limit_reached =>
          /\ itunes_rate_limit_reached'
          /\ track_loop'.itunes_lookups = track_loop.itunes_lookups
          /\ RecordsMissing =>
               LET t == Head(track_loop.items).id
               IN  /\ t \in DOMAIN missing_tracks_db'
                   /\ missing_tracks_db'[t].itunes_url =
                        IF t \in DOMAIN missing_tracks_db
                          THEN missing_tracks_db[t].itunes_url
                        ELSE None]_vars

\* C15 witness: the lookup for the first track of the listing hit the rate
\* limit, and the second track, a different one that had no entry, has
\* been recorded without a lookup and with no iTunes URL.
C15_Witness ==
  /\ pc = "track_loop"
  /\ itunes_rate_limit_reached
  /\ track_loop.itunes_lookups = 1
  /\ Len(track_loop.all_tracks) = 2
  /\ LET t1 == track_loop.all_tracks[1].spotify
         t2 == track_loop.all_tracks[2].spotify
     IN  /\ t1 # t2
         /\ {t1, t2} \cap DOMAIN disk_missing_tracks_db = {}
         /\ {t1, t2} \subseteq DOMAIN missing_tracks_db
         /\ missing_tracks_db[t2].itunes_url = None

\* The step is a pass of the loop over a track that is not matched.
PassesUnmatched ==
  /\ PassesNextItem
  /\ track_loop'.missing_count = track_loop.missing_count + 1

\* C16: a pass over an unmatched track that has a missing-track entry
\* leaves the entry's ignored flag as it was (an entry marked ignored stays
\* marked ignored), and when the entry holds an iTunes URL it keeps that
\* URL and no lookup is made.
C16_RerecordingKeepsLinkAndIgnored ==
  [][(PassesUnmatched
        /\ Head(track_loop.items).id \in DOMAIN missing_tracks_db) =>
       LET t == Head(track_loop.items).id
       IN  /\ t \in DOMAIN missing_tracks_db'
           /\ missing_tracks_db'[t].ignored = missing_tracks_db[t].ignored
           /\ missing_tracks_db[t].itunes_url # None =>
                /\ missing_tracks_db'[t].itunes_url = missing_tracks_db[t].itunes_url
                /\ track_loop'.itunes_lookups = track_loop.itunes_lookups]_vars

\* C16 witness: the loop has passed an unmatched track whose loaded entry
\* was marked ignored, and an unmatched track whose loaded entry, not
\* ignored, held an iTunes URL: the first is still marked ignored, the
\* second was written again with the same URL, and no lookup was made.
C16_Witness ==
  /\ pc = "track_loop"
  /\ track_loop.itunes_lookups = 0
  /\ \E t \in Processed \ Matched :
       /\ t \in DOMAIN disk_missing_tracks_db
       /\ disk_missing_tracks_db[t].ignored
       /\ missing_tracks_db[t].ignored
  /\ \E t \in Processed \ Matched :
       /\ t \in DOMAIN disk_missing_tracks_db
       /\ ~disk_missing_tracks_db[t].ignored
       /\ disk_missing_tracks_db[t].itunes_url # None
       /\ missing_tracks_db[t].itunes_url = disk_missing_tracks_db[t].itunes_url

\* C17: a pass that records a track as missing sets the entry's date_added
\* to the later of the entry's date and the item's added_at, so that the
\* date never moves back; with no entry (or an entry without a date) it
\* sets it to the item's added_at.
C17_DateAddedIsTheLatest ==
  [][RecordsMissing =>
       LET item == Head(track_loop.items)
           t == item.id
       IN  IF t \in DOMAIN missing_tracks_db
                /\ missing_tracks_db[t].date_added # NoDate
             THEN /\ missing_tracks_db'[t].date_added =
                       Max(missing_tracks_db[t].date_added, item.added_at)
                  /\ missing_tracks_db'[t].date_added >=
                       missing_tracks_db[t].date_added
           ELSE missing_tracks_db'[t].date_added = item.added_at]_vars

\* The Rekordbox tracks of the report's positions that have one, in order.
MatchedOf(all_tracks) ==
  LET sel == SelectSeq(all_tracks, LAMBDA e : e.rekordbox # NoneId)
  IN  [i \in 1..Len(sel) |-> sel[i].rekordbox]

\* C18: whatever tracks fail to match, the loop goes on to the end of the
\* listing; rb_playlist_song_queue holds the matched tracks in order and
\* none of the unmatched, the report has a position for every item passed,
\* and its missing count is the number of positions with no Rekordbox track.
C18_UnmatchedLeftOutAndCounted ==
  /\ pc = "saved" => track_loop.items = <<>>
  /\ track_loop.queue = MatchedOf(track_loop.all_tracks)
  /\ \A i \in DOMAIN track_loop.queue : track_loop.queue[i] \in rb_all_tracks
  /\ track_loop.missing_count =
       Cardinality({i \in DOMAIN track_loop.all_tracks :
                      track_loop.all_tracks[i].rekordbox = NoneId})

\* C18 witness: the run has ended after a listing whose first track had no
\* match (its entry marked ignored) and whose second track was matched.
C18_Witness ==
  /\ pc = "saved"
  /\ Len(track_loop.all_tracks) = 2
  /\ track_loop.all_tracks[1].rekordbox = NoneId
  /\ track_loop.all_tracks[1].spotify \in DOMAIN missing_tracks_db
  /\ missing_tracks_db[track_loop.all_tracks[1].spotify].ignored
  /\ track_loop.all_tracks[2].rekordbox # NoneId
  /\ Len(track_loop.queue) = 1
  /\ track_loop.missing_count = 1

\* ======================================== the custom-track step on its own
\* Lines 401-583 of sync_playlist: the parsing of the playlist's custom
\* track directives and the splicing of the custom tracks into the matched
\* tracks.  An optional value is <<>> for None and <<v>> for the value v.

\* CustomTrack(rekordbox_id, index, target) together with the directive's
\* number in the playlist's list.
CustomTrack(rekordbox_id, index, target, number) ==
  [rekordbox_id |-> rekordbox_id, index |-> index, target |-> target,
   number |-> number]

\* Lines 432-443: the position fields the directive gives.
position_fields(custom_track) ==
  {f \in {"index", "offset", "position"} : custom_track[f] # <<>>}

\* Faulty c_index: position is taken as it is, not turned into a 0-based
\* index.
c_index_position_as_index(custom_track) ==
  IF custom_track.index # <<>> THEN custom_track.index
  ELSE IF custom_track.offset # <<>> THEN custom_track.offset
  ELSE custom_track.position

\* Lines 445-453: c_index is index, else offset, else position - 1.
c_index(custom_track) ==
  IF custom_track.index # <<>> THEN custom_track.index
  ELSE IF custom_track.offset # <<>> THEN custom_track.offset
  ELSE IF custom_track.position # <<>> THEN <<custom_track.position[1] - 1>>
  ELSE <<>>

\* Faulty loop body: a directive that gives more than one position field
\* is skipped with a warning.
DirectiveOutcome_skips_ambiguous(custom_track) ==
  IF custom_track.rekordbox_id \notin rb_all_tracks THEN "skip"
  ELSE IF Cardinality(position_fields(custom_track)) > 1 THEN "skip"
  ELSE IF custom_track.type = <<>> THEN "insert"
  ELSE IF custom_track.type[1] \in {"insert", "replace"} THEN custom_track.type[1]
  ELSE "skip"

\* What the loop body of lines 417-466 does with one directive: "skip" (a
\* continue, or an unknown type), "raise" (the ValueError of line 442),
\* "insert" or "replace".
DirectiveOutcome(custom_track) ==
  IF custom_track.rekordbox_id \notin rb_all_tracks THEN "skip"
  ELSE IF Cardinality(position_fields(custom_track)) > 1 THEN "raise"
  ELSE IF custom_track.type = <<>> THEN "insert"
  ELSE IF custom_track.type[1] \in {"insert", "replace"} THEN custom_track.type[1]
  ELSE "skip"

RECURSIVE ParseCustomTracks(_, _, _)
\* The loop of lines 417-466 from directive k on; acc is
\* [raised, tracks_to_insert, tracks_to_replace] so far.
ParseCustomTracks(custom_tracks, k, acc) ==
  IF k > Len(custom_tracks) THEN acc
  ELSE LET d == custom_tracks[k]
           c == CustomTrack(d.rekordbox_id, c_index(d), d.target, k)
           outcome == DirectiveOutcome(d)
       IN  IF outcome = "raise" THEN [acc EXCEPT !.raised = TRUE]
           ELSE ParseCustomTracks(custom_tracks, k + 1,
                  IF outcome = "insert"
                    THEN [acc EXCEPT !.tracks_to_insert = Append(@, c)]
                  ELSE IF outcome = "replace"
                    THEN [acc EXCEPT !.tracks_to_replace = Append(@, c)]
                  ELSE acc)

\* An entry (original_index, track, is_custom) of
\* rb_playlist_tracks_by_index; number is 0 for a matched track and the
\* number of the directive that brought the entry otherwise.
Entry(index, track, is_custom, number) ==
  [index |-> index, track |-> track, is_custom |-> is_custom,
   number |-> number]

\* Lines 479-482.
rb_playlist_tracks_by_index(queue) ==
  [i \in 1..Len(queue) |-> Entry(<<i>>, queue[i], FALSE, 0)]

\* The least element of a set of positions, 0 if the set is empty: where
\* a scan from the front of a list stops.
FirstOf(positions) ==
  IF positions = {} THEN 0
  ELSE CHOOSE k \in positions : \A j \in positions : k <= j

\* Lines 485-510: the target index an insert resolves to, <<>> for the end
\* of the playlist.
target_index(c, list) ==
  LET found == FirstOf({k \in DOMAIN list : list[k].track = c.target})
      offset == IF c.index = <<>> THEN 0 ELSE c.index[1]
      resolved ==
        IF c.target # NoneId
          THEN IF found # 0
                 THEN <<(IF list[found].index = <<>> THEN 0
                         ELSE list[found].index[1]) + offset>>
               ELSE <<>>
        ELSE c.index
  IN  IF resolved # <<>> /\ (resolved[1] < 0 \/ resolved[1] > Len(list))
        THEN <<>>
      ELSE resolved

RECURSIVE GroupInserts(_, _, _, _)
\* Lines 483-517 from insert k on: tracks_to_insert_grouped, a dict kept in
\* the order in which its keys were first used, as the sequence of its
\* [target_index, tracks] items.
GroupInserts(tracks_to_insert, k, list, grouped) ==
  IF k > Len(tracks_to_insert) THEN grouped
  ELSE LET c == tracks_to_insert[k]
           ti == target_index(c, list)
           g == FirstOf({j \in DOMAIN grouped : grouped[j].target_index = ti})
       IN  GroupInserts(tracks_to_insert, k + 1, list,
             IF g = 0
               THEN Append(grouped, [target_index |-> ti, tracks |-> <<c>>])
             ELSE [grouped EXCEPT ![g].tracks = Append(@, c)])

\* Faulty lines 540-543: insert_index is not moved on after an insert, so
\* the tracks of a group end up in reverse order.
GroupEntries_insert_index_kept(group) ==
  [j \in DOMAIN group.tracks |->
     Entry(group.target_index,
           group.tracks[Len(group.tracks) + 1 - j].rekordbox_id, TRUE,
           group.tracks[Len(group.tracks) + 1 - j].number)]

\* Lines 540-543: the entries the custom tracks of one group become, in
\* the order of the group.
GroupEntries(group) ==
  [j \in DOMAIN group.tracks |->
     Entry(group.target_index, group.tracks[j].rekordbox_id, TRUE,
           group.tracks[j].number)]

\* Faulty lines 519-522: the group under None is popped and its tracks are
\* not added to the list.
AppendAtEnd_pops_only(list, grouped) == list

\* Lines 519-522: the tracks grouped under None are appended.
AppendAtEnd(list, grouped) ==
  LET g == FirstOf({j \in DOMAIN grouped : grouped[j].target_index = <<>>})
  IN  IF g = 0 THEN list ELSE list \o GroupEntries(grouped[g])

\* Faulty lines 525-543: a group that finds no entry with a greater index
\* goes in front of the entries whose index is None, not at the end of
\* the list.
InsertGroup_before_appended(list, group) ==
  LET later == FirstOf({j \in DOMAIN list :
                          \/ list[j].index = <<>>
                          \/ list[j].index[1] > group.target_index[1]})
      insert_index == IF later # 0 THEN later - 1 ELSE Len(list)
  IN  SubSeq(list, 1, insert_index) \o GroupEntries(group)
        \o SubSeq(list, insert_index + 1, Len(list))

\* Faulty lines 540-543: the tracks of the group are assigned to the places
\* from insert_index on, not inserted there, so the entries that were at
\* those places are lost.
InsertGroup_overwrites(list, group) ==
  LET later == FirstOf({j \in DOMAIN list :
                          /\ list[j].index # <<>>
                          /\ list[j].index[1] > group.target_index[1]})
      insert_index == IF later # 0 THEN later - 1 ELSE Len(list)
  IN  SubSeq(list, 1, insert_index) \o GroupEntries(group)
        \o SubSeq(list, insert_index + Len(group.tracks) + 1, Len(list))

\* Lines 525-543 for one group: the group goes in front of the first entry
\* whose index is not None and greater than the group's, at the end of the
\* list if there is none.
InsertGroup(list, group) ==
  LET later == FirstOf({j \in DOMAIN list :
                          /\ list[j].index # <<>>
                          /\ list[j].index[1] > group.target_index[1]})
      insert_index == IF later # 0 THEN later - 1 ELSE Len(list)
  IN  SubSeq(list, 1, insert_index) \o GroupEntries(group)
        \o SubSeq(list, insert_index + 1, Len(list))

RECURSIVE InsertGroups(_, _, _)
\* The loop of line 524 over the groups left once None is popped, from
\* group g on.
InsertGroups(list, grouped, g) ==
  IF g > Len(grouped) THEN list
  ELSE InsertGroups(InsertGroup(list, grouped[g]), grouped, g + 1)

\* Faulty lines 559-570: a replace by target stops at the first entry of
\* the target track.
ReplaceTrack_first_only(list, c) ==
  IF c.index # <<>>
    THEN LET at == FirstOf({j \in DOMAIN list :
                              /\ list[j].index = <<c.index[1] + 1>>
                              /\ ~list[j].is_custom})
         IN  IF at = 0 THEN list
             ELSE [list EXCEPT ![at] =
                     Entry(c.index, c.rekordbox_id, TRUE, c.number)]
  ELSE LET at == FirstOf({j \in DOMAIN list : list[j].track = c.target})
       IN  IF at = 0 THEN list
           ELSE [list EXCEPT ![at] =
                   Entry(list[at].index, c.rekordbox_id, TRUE, c.number)]

\* Faulty lines 546-558: a replace by index does not look at is_custom.
ReplaceTrack_replaces_custom(list, c) ==
  IF c.index # <<>>
    THEN LET at == FirstOf({j \in DOMAIN list :
                              list[j].index = <<c.index[1] + 1>>})
         IN  IF at = 0 THEN list
             ELSE [list EXCEPT ![at] =
                     Entry(c.index, c.rekordbox_id, TRUE, c.number)]
  ELSE [j \in DOMAIN list |->
          IF list[j].track = c.target
            THEN Entry(list[j].index, c.rekordbox_id, TRUE, c.number)
          ELSE list[j]]

\* Faulty lines 545-570: a replace that finds nothing to replace appends
\* its custom track to the list.
ReplaceTrack_appends_unmatched(list, c) ==
  IF c.index # <<>>
    THEN LET at == FirstOf({j \in DOMAIN list :
                              /\ list[j].index = <<c.index[1] + 1>>
                              /\ ~list[j].is_custom})
         IN  IF at = 0
               THEN Append(list, Entry(<<>>, c.rekordbox_id, TRUE, c.number))
             ELSE [list EXCEPT ![at] =
                     Entry(c.index, c.rekordbox_id, TRUE, c.number)]
  ELSE IF \A j \in DOMAIN list : list[j].track # c.target
    THEN Append(list, Entry(<<>>, c.rekordbox_id, TRUE, c.number))
  ELSE [j \in DOMAIN list |->
          IF list[j].track = c.target
            THEN Entry(list[j].index, c.rekordbox_id, TRUE, c.number)
          ELSE list[j]]

\* Lines 546-570 for one replace: by index, the first entry that is not
\* custom and whose index is the replace's index + 1; with no index, every
\* entry whose track is the target.
ReplaceTrack(list, c) ==
  IF c.index # <<>>
    THEN LET at == FirstOf({j \in DOMAIN list :
                              /\ list[j].index = <<c.index[1] + 1>>
                              /\ ~list[j].is_custom})
         IN  IF at = 0 THEN list
             ELSE [list EXCEPT ![at] =
                     Entry(c.index, c.rekordbox_id, TRUE, c.number)]
  ELSE [j \in DOMAIN list |->
          IF list[j].track = c.target
            THEN Entry(list[j].index, c.rekordbox_id, TRUE, c.number)
          ELSE list[j]]

RECURSIVE ReplaceTracks(_, _, _)
\* The loop of line 545 from replace k on.
ReplaceTracks(list, tracks_to_replace, k) ==
  IF k > Len(tracks_to_replace) THEN list
  ELSE ReplaceTracks(ReplaceTrack(list, tracks_to_replace[k]),
                     tracks_to_replace, k + 1)

\* Lines 479-543: rb_playlist_tracks_by_index once the inserts are applied.
InsertCustomTracks(queue, tracks_to_insert) ==
  LET list == rb_playlist_tracks_by_index(queue)
      grouped == GroupInserts(tracks_to_insert, 1, list, <<>>)
      indexed == SelectSeq(grouped, LAMBDA group : group.target_index # <<>>)
  IN  InsertGroups(AppendAtEnd(list, grouped), indexed, 1)

\* Lines 479-570: rb_playlist_tracks_by_index once the inserts and the
\* replaces are applied.
SpliceCustomTracks(queue, tracks_to_insert, tracks_to_replace) ==
  ReplaceTracks(InsertCustomTracks(queue, tracks_to_insert),
                tracks_to_replace, 1)

\* rb_playlist_tracks_by_index as each pass of the loop of line 545 leaves
\* it: the k-th list is the one after the k-th replace.
ReplaceSteps(list, tracks_to_replace) ==
  [k \in DOMAIN tracks_to_replace |->
     ReplaceTracks(list, SubSeq(tracks_to_replace, 1, k), 1)]

\* Lines 576-582: final_tracklist_ids.
final_tracklist_ids(list) == [j \in DOMAIN list |-> list[j].track]

\* An entry of custom_tracks.yaml; known says whether rekordbox_id is to be
\* the id of a library track.
Directive(known, type, index, offset, position, target) ==
  [known |-> known, type |-> type, index |-> index, offset |-> offset,
   position |-> position, target |-> target]

\* Where a directive can ask to be: nowhere; at an index, from one below
\* the first to one past the end of the longest queue; at a 1-based
\* position; at an offset from the first or the second track of the queue;
\* at a target no queue holds.
Placements ==
  {[index |-> <<>>, offset |-> <<>>, position |-> <<>>, target |-> NoneId]}
    \cup {[index |-> <<v>>, offset |-> <<>>, position |-> <<>>, target |-> NoneId] :
            v \in (-1)..(MaxQueue + 1)}
    \cup {[index |-> <<>>, offset |-> <<>>, position |-> <<v>>, target |-> NoneId] :
            v \in {0, 2}}
    \cup {[index |-> <<>>, offset |-> o, position |-> <<>>, target |-> QueueTrack(k)] :
            o \in {<<>>, <<-1>>, <<1>>}, k \in {1, 2}}
    \cup {[index |-> <<>>, offset |-> <<>>, position |-> <<>>, target |-> StaleId]}

\* The directives the lists are made of: an insert or a replace of a
\* library track at every placement; and a directive with an unknown type,
\* one with no type, one that names an unknown track, and directives that
\* give more than one position field (one of them naming an unknown track).
Directives ==
  {Directive(TRUE, <<ty>>, pl.index, pl.offset, pl.position, pl.target) :
     ty \in {"insert", "replace"}, pl \in Placements}
    \cup {Directive(TRUE, <<"move">>, <<1>>, <<>>, <<>>, NoneId),
          Directive(TRUE, <<>>, <<1>>, <<>>, <<>>, NoneId),
          Directive(FALSE, <<"insert">>, <<1>>, <<>>, <<>>, NoneId),
          Directive(FALSE, <<"insert">>, <<1>>, <<>>, <<2>>, NoneId),
          Directive(TRUE, <<"insert">>, <<1>>, <<>>, <<2>>, NoneId),
          Directive(TRUE, <<"insert">>, <<1>>, <<1>>, <<>>, QueueTrack(1)),
          Directive(TRUE, <<"replace">>, <<>>, <<0>>, <<1>>, NoneId),
          Directive(TRUE, <<"insert">>, <<0>>, <<0>>, <<1>>, NoneId)}

\* The playlist's list in custom_tracks.yaml made of the directives ds: the
\* k-th names the library track CustomTrackId(k), or a track the library
\* does not have.
custom_tracks_of(ds) ==
  [k \in DOMAIN ds |->
     [rekordbox_id |-> IF ds[k].known THEN CustomTrackId(k) ELSE StaleId,
      type |-> ds[k].type, index |-> ds[k].index, offset |-> ds[k].offset,
      position |-> ds[k].position, target |-> ds[k].target]]

\* The list of custom_tracks_of(ds) with the first directive naming the
\* library track id instead.
custom_tracks_naming(ds, id) ==
  [custom_tracks_of(ds) EXCEPT ![1].rekordbox_id = id]

\* The queues of matched tracks: distinct tracks, or, from two tracks on,
\* the first track once more at the end.
Queues ==
  {[k \in 1..n |-> QueueTrack(k)] : n \in 0..MaxQueue}
    \cup {[k \in 1..n |-> IF k = n THEN QueueTrack(1) ELSE QueueTrack(k)] :
            n \in 2..MaxQueue}

\* The report's all_tracks (lines 379-392, as the sequence of its
\* positions) after a track loop that left queue: every source track was
\* matched (gap = 0), or the source track at position gap was not, the
\* tracks of the queue being the others.
ReportOf(queue, gap) ==
  [i \in 1..(Len(queue) + (IF gap = 0 THEN 0 ELSE 1)) |->
     [spotify |-> i,
      rekordbox |-> IF gap = 0 \/ i < gap THEN queue[i]
                    ELSE IF i = gap THEN NoneId
                    ELSE queue[i - 1]]]

\* The directives of the longer lists: inserts of a library track with no
\* position, or at one of the indices 0, 1 and 2.
IndexedInserts ==
  {Directive(TRUE, <<"insert">>, <<>>, <<>>, <<>>, NoneId)}
    \cup {Directive(TRUE, <<"insert">>, <<v>>, <<>>, <<>>, NoneId) : v \in 0..2}

\* The lists of directives of a playlist: up to MaxDirectives directives
\* of any kind, or MaxDirectives + 1 inserts.
DirectiveLists ==
  Listings(Directives, MaxDirectives)
    \cup [1..(MaxDirectives + 1) -> IndexedInserts]

\* sync_playlist at line 401: the track loop has left a queue of matched
\* tracks and the report's all_tracks, and the playlist has a list of
\* directives.  The k-th directive names the library track CustomTrackId(k);
\* or (same) the first of two, an insert with no position, names the first
\* track of the queue.  Every source track was matched; or, on a playlist
\* with at most one directive, the first or the second was not.
SpliceInit ==
  /\ pc = "custom_tracks"
  /\ PipelineIdle
  /\ track_id_db = <<>>
  /\ missing_tracks_db = <<>>
  /\ itunes_rate_limit_reached = FALSE
  /\ disk_track_id_db = <<>>
  /\ disk_missing_tracks_db = <<>>
  /\ id_overrides_db = <<>>
  /\ disk_id_overrides_db = <<>>
  /\ track_loop = <<>>
  /\ search = <<>>
  /\ \E queue \in Queues, ds \in DirectiveLists, gap \in 0..2,
        same \in BOOLEAN :
       /\ gap # 0 => (gap <= Len(queue) /\ Len(ds) <= 1 /\ ~same)
       /\ same => /\ queue # <<>>
                  /\ Len(ds) = 2
                  /\ ds[1] = Directive(TRUE, <<"insert">>, <<>>, <<>>, <<>>,
                                       NoneId)
       /\ rec = [all_tracks |-> ReportOf(queue, gap),
                 rb_playlist_song_queue |-> MatchedOf(ReportOf(queue, gap)),
                 custom_tracks |->
                   IF same THEN custom_tracks_naming(ds, QueueTrack(1))
                   ELSE custom_tracks_of(ds),
                 tracks_to_insert |-> <<>>, tracks_to_replace |-> <<>>,
                 inserted |-> <<>>, replaced |-> <<>>,
                 rb_playlist_tracks_by_index |-> <<>>]

\* Lines 417-466 end without a raise: tracks_to_insert and
\* tracks_to_replace are filled.
ParseDirectives ==
  /\ pc = "custom_tracks"
  /\ LET parsed == ParseCustomTracks(rec.custom_tracks, 1,
                     [raised |-> FALSE, tracks_to_insert |-> <<>>,
                      tracks_to_replace |-> <<>>])
     IN  /\ ~parsed.raised
         /\ rec' = [rec EXCEPT !.tracks_to_insert = parsed.tracks_to_insert,
                               !.tracks_to_replace = parsed.tracks_to_replace]
  /\ pc' = "splice"
  /\ UNCHANGED <<exit_code, interrupted, store_vars, disk_vars, rb_vars,
                 loop_vars, results_queue, pool_vars, overrides_vars,
                 track_loop, search>>

\* Line 442 raises ValueError: nothing in sync_playlist catches it, and the
\* except of line 672 does.
ParseRaises ==
  /\ pc = "custom_tracks"
  /\ ParseCustomTracks(rec.custom_tracks, 1,
       [raised |-> FALSE, tracks_to_insert |-> <<>>,
        tracks_to_replace |-> <<>>]).raised
  /\ pc' = "except"
  /\ raised' = TRUE
  /\ UNCHANGED <<exit_code, interrupted, store_vars, disk_vars, rb_vars,
                 playlist_data, processed_count, taken, error_taken,
                 fallback_fetches, synced, skipped, timed_out,
                 results_queue, pool_vars, overrides_vars, unit_vars>>

\* Lines 479-587: the custom tracks are spliced in and the tracks are added
\* to the Rekordbox playlist; sync_playlist returns.
Splice ==
  /\ pc = "splice"
  /\ LET list == SpliceCustomTracks(rec.rb_playlist_song_queue,
                   rec.tracks_to_insert, rec.tracks_to_replace)
         inserted == InsertCustomTracks(rec.rb_playlist_song_queue,
                       rec.tracks_to_insert)
     IN  /\ rec' = [rec EXCEPT !.rb_playlist_tracks_by_index = list,
                               !.inserted = inserted,
                               !.replaced =
                                 ReplaceSteps(inserted, rec.tracks_to_replace)]
         /\ rb_playlists' = DictSet(rb_playlists, 1, final_tracklist_ids(list))
  /\ pc' = "synced"
  /\ UNCHANGED <<exit_code, interrupted, store_vars, disk_vars, rb_committed,
                 loop_vars, results_queue, pool_vars, overrides_vars,
                 track_loop, search>>

SpliceNext ==
  \/ ParseDirectives
  \/ ParseRaises
  \/ Splice
  \/ ExceptHandler

SpliceSpec == SpliceInit /\ [][SpliceNext]_vars

\* The directives of the playlist that give more than one of index, offset
\* and position.
Ambiguous ==
  {k \in DOMAIN rec.custom_tracks :
     Cardinality({f \in {"index", "offset", "position"} :
                    rec.custom_tracks[k][f] # <<>>}) > 1}

\* C19 as stated: a directive that gives more than one of index, offset
\* and position does not end the playlist's sync or the run: no exception
\* reaches the handler of line 672 and the process does not exit.
C19_AmbiguousDirectiveIsNotFatal ==
  Ambiguous # {} => (~raised /\ pc \notin {"except", "exiting"})

\* C19: a directive that names a library track and gives more than one of
\* index, offset and position is fatal: ValueError leaves sync_playlist
\* before any custom track is spliced in and before any track is written
\* to the Rekordbox playlist, and the handler of line 672 saves the stores
\* and exits with 130.  Nothing else in the custom-track step raises.
C19_AmbiguousDirectiveAbortsTheRun ==
  LET fatal == {k \in Ambiguous :
                  rec.custom_tracks[k].rekordbox_id \in rb_all_tracks}
  IN  /\ fatal # {} =>
           /\ pc \in {"custom_tracks", "except", "exiting"}
           /\ rb_playlists = <<>>
           /\ rec.rb_playlist_tracks_by_index = <<>>
      /\ fatal = {} => pc \in {"custom_tracks", "splice", "synced"}
      /\ pc \in {"except", "exiting"} => raised
      /\ pc = "exiting" => (exit_code = EXIT_SYNC_EXCEPT /\ save_count = 1)

\* C19 witness: the run has ended with exit code 130 on a playlist whose
\* first directive gives one position field and whose second gives two.
C19_Witness ==
  /\ pc = "exiting"
  /\ exit_code = EXIT_SYNC_EXCEPT
  /\ Len(rec.custom_tracks) = 2
  /\ Ambiguous = {2}
  /\ rec.custom_tracks[1].rekordbox_id \in rb_all_tracks
  /\ rec.custom_tracks[1].type = <<"insert">>
  /\ rec.rb_playlist_song_queue # <<>>

\* Number of matched tracks of the playlist.
NumMatched == Len(rec.rb_playlist_song_queue)

\* The index directive k asks for, as the claim words it: index, else
\* position - 1, else the offset (0 if none) from the originalIndex of the
\* target's first entry; <<>> if it asks for none or the target is not in
\* the queue.
AskedIndex(k) ==
  LET d == rec.custom_tracks[k]
      at == {j \in 1..NumMatched : rec.rb_playlist_song_queue[j] = d.target}
      first == CHOOSE j \in at : \A i \in at : j <= i
  IN  IF d.target # NoneId
        THEN IF at = {} THEN <<>>
             ELSE <<first + (IF d.offset # <<>> THEN d.offset[1]
                             ELSE IF d.index # <<>> THEN d.index[1] ELSE 0)>>
      ELSE IF d.index # <<>> THEN d.index
      ELSE IF d.offset # <<>> THEN d.offset
      ELSE IF d.position # <<>> THEN <<d.position[1] - 1>>
      ELSE <<>>

\* The insert directives of a library track that ask for an index t with
\* 0 <= t <= N.
InsertsInBounds ==
  {k \in DOMAIN rec.custom_tracks :
     /\ rec.custom_tracks[k].rekordbox_id \in rb_all_tracks
     /\ rec.custom_tracks[k].type \in {<<>>, <<"insert">>}
     /\ AskedIndex(k) # <<>>
     /\ AskedIndex(k)[1] >= 0 /\ AskedIndex(k)[1] <= NumMatched}

\* C20: once the custom tracks are spliced in, the entry of every insert
\* directive that asks for an index t with 0 <= t <= N lies after every
\* original entry with originalIndex <= t and before every original entry
\* with originalIndex > t; and when that directive is the playlist's only
\* one, the result has N + 1 entries and is the matched tracks in their
\* order with the custom track in between (first, for t = 0).
C20_InsertLandsBetweenOriginals ==
  pc = "synced" =>
    LET list == rec.rb_playlist_tracks_by_index
    IN  \A k \in InsertsInBounds :
          LET t == AskedIndex(k)[1]
              at == {j \in DOMAIN list : list[j].number = k}
          IN  /\ Cardinality(at) = 1
              /\ \A p \in at :
                   /\ list[p].track = rec.custom_tracks[k].rekordbox_id
                   /\ \A j \in DOMAIN list :
                        (list[j].number = 0 /\ list[j].index[1] <= t) => j < p
                   /\ \A j \in DOMAIN list :
                        (list[j].number = 0 /\ list[j].index[1] > t) => j > p
                   /\ Len(rec.custom_tracks) = 1 =>
                        /\ Len(list) = NumMatched + 1
                        /\ p = t + 1
                        /\ rb_playlists[1] =
                             SubSeq(rec.rb_playlist_song_queue, 1, t)
                               \o <<rec.custom_tracks[k].rekordbox_id>>
                               \o SubSeq(rec.rb_playlist_song_queue, t + 1,
                                         NumMatched)

\* C20 witness: the playlist's three matched tracks A, B, C and the single
\* directive insert(X, position = 2) have given A, X, B, C.
C20_Witness ==
  /\ pc = "synced"
  /\ rec.rb_playlist_song_queue = <<QueueTrack(1), QueueTrack(2), QueueTrack(3)>>
  /\ Len(rec.custom_tracks) = 1
  /\ rec.custom_tracks[1].type = <<"insert">>
  /\ rec.custom_tracks[1].position = <<2>>
  /\ rec.custom_tracks[1].target = NoneId
  /\ rb_playlists[1] =
       <<QueueTrack(1), CustomTrackId(1), QueueTrack(2), QueueTrack(3)>>

\* The entries of the list that directive k brought.
EntriesOf(list, k) == {j \in DOMAIN list : list[j].number = k}

\* The insert directives of a library track that ask for the index t.
InsertsAt(t) == {k \in InsertsInBounds : AskedIndex(k) = <<t>>}

\* C21: once the custom tracks are spliced in, the entries of the insert
\* directives that ask for one same index t (0 <= t <= N) are next to one
\* another in the order in which the directives are declared, whatever
\* directives are declared between them: nothing lies between the entry of
\* one and the entry of the next.  The inserts at index 0 are the first
\* entries of the result, in that order, when the playlist has a matched
\* track or every directive of its list is such an insert; the result is
\* then those entries followed by the matched tracks.
C21_SameIndexInsertsAdjacentInDeclarationOrder ==
  pc = "synced" =>
    LET list == rec.rb_playlist_tracks_by_index
        pos(k) == CHOOSE j \in DOMAIN list : list[j].number = k
    IN  /\ \A t \in 0..NumMatched : \A k1 \in InsertsAt(t), k2 \in InsertsAt(t) :
             (k1 < k2 /\ ~\E k \in InsertsAt(t) : k1 < k /\ k < k2) =>
               /\ EntriesOf(list, k1) # {} /\ EntriesOf(list, k2) # {}
               /\ pos(k2) = pos(k1) + 1
        /\ (NumMatched > 0 \/ InsertsAt(0) = DOMAIN rec.custom_tracks) =>
             \A k \in InsertsAt(0) :
               /\ EntriesOf(list, k) # {}
               /\ pos(k) = Cardinality({i \in InsertsAt(0) : i <= k})
               /\ rb_playlists[1][pos(k)] = rec.custom_tracks[k].rekordbox_id
        /\ InsertsAt(0) = DOMAIN rec.custom_tracks =>
             rb_playlists[1] =
               [k \in DOMAIN rec.custom_tracks |->
                  rec.custom_tracks[k].rekordbox_id]
                 \o rec.rb_playlist_song_queue

\* C21 witness: on matched tracks A, B the directives insert(Y, index 0),
\* insert(W, index 1), insert(Z, index 0) have given Y, Z, A, W, B.
C21_Witness ==
  /\ pc = "synced"
  /\ rec.rb_playlist_song_queue = <<QueueTrack(1), QueueTrack(2)>>
  /\ Len(rec.custom_tracks) = 3
  /\ \A k \in 1..3 : rec.custom_tracks[k].type = <<"insert">>
  /\ rec.custom_tracks[1].index = <<0>>
  /\ rec.custom_tracks[2].index = <<1>>
  /\ rec.custom_tracks[3].index = <<0>>
  /\ rb_playlists[1] =
       <<CustomTrackId(1), CustomTrackId(3), QueueTrack(1), CustomTrackId(2),
         QueueTrack(2)>>

\* The tracks of the original (matched, not replaced) entries of a list,
\* in the order of the list.
OriginalsOf(list) ==
  LET sel == SelectSeq(list, LAMBDA e : e.number = 0)
  IN  [j \in DOMAIN sel |-> sel[j].track]

\* C22: the order of the source playlist is kept.  With no directive the
\* tracks written to the Rekordbox playlist are the matched tracks of the
\* report in source order.  With directives, once the inserts are applied
\* the original entries are all the matched tracks in source order; every
\* replace leaves each entry it does not replace where it was; and the
\* tracks written are those of the final list, place by place.
C22_SourceOrderPreserved ==
  pc = "synced" =>
    LET list == rec.rb_playlist_tracks_by_index
        matched == MatchedOf(rec.all_tracks)
    IN  /\ rec.custom_tracks = <<>> => rb_playlists[1] = matched
        /\ OriginalsOf(rec.inserted) = matched
        /\ Len(list) = Len(rec.inserted)
        /\ \A j \in DOMAIN list :
             /\ list[j].number = 0 => list[j] = rec.inserted[j]
             /\ list[j].number = 0 => ~list[j].is_custom
             /\ rb_playlists[1][j] = list[j].track
        /\ \A i \in DOMAIN list, j \in DOMAIN list :
             (i < j /\ list[i].number = 0 /\ list[j].number = 0) =>
               list[i].index[1] < list[j].index[1]

\* C22 witness: on matched tracks A, B, C the directives insert(X, index 1)
\* and replace(Y, index 1) have given A, X, Y, C: the originals left are A
\* and C, in that order.
C22_Witness ==
  /\ pc = "synced"
  /\ rec.rb_playlist_song_queue = <<QueueTrack(1), QueueTrack(2), QueueTrack(3)>>
  /\ Len(rec.custom_tracks) = 2
  /\ rec.custom_tracks[1].type = <<"insert">>
  /\ rec.custom_tracks[2].type = <<"replace">>
  /\ rb_playlists[1] =
       <<QueueTrack(1), CustomTrackId(1), CustomTrackId(2), QueueTrack(3)>>
  /\ OriginalsOf(rec.rb_playlist_tracks_by_index) = <<QueueTrack(1), QueueTrack(3)>>

\* The directives that lines 417-466 take as inserts, and as replaces:
\* those that name a library track, by their type.
AcceptedInserts ==
  {k \in DOMAIN rec.custom_tracks :
     /\ rec.custom_tracks[k].rekordbox_id \in rb_all_tracks
     /\ rec.custom_tracks[k].type \in {<<>>, <<"insert">>}}

AcceptedReplaces ==
  {k \in DOMAIN rec.custom_tracks :
     /\ rec.custom_tracks[k].rekordbox_id \in rb_all_tracks
     /\ rec.custom_tracks[k].type = <<"replace">>}

\* The list the k-th pass of the replace loop starts from.
BeforeReplace(k) == IF k = 1 THEN rec.inserted ELSE rec.replaced[k - 1]

\* Whether the k-th replace of tracks_to_replace has something to replace
\* in the list it starts from: an entry that is not custom with index
\* t + 1, or, with no index, an entry of the target track.
ReplaceMatches(k) ==
  LET c == rec.tracks_to_replace[k]
      list == BeforeReplace(k)
  IN  IF c.index # <<>>
        THEN \E j \in DOMAIN list :
               list[j].index = <<c.index[1] + 1>> /\ ~list[j].is_custom
      ELSE \E j \in DOMAIN list : list[j].track = c.target

\* C23: the lengths add up.  No replace changes the length of the list,
\* and one that finds nothing to replace leaves the list as it was, the
\* sync going on to its end; every accepted insert directive has exactly
\* one entry in the list once the inserts are applied, which then has N
\* entries more than that; so the list written to the playlist has as many
\* entries as there are matched tracks and accepted insert directives.
C23_LengthIsMatchedPlusInserts ==
  pc = "synced" =>
    /\ Len(rec.tracks_to_replace) = Cardinality(AcceptedReplaces)
    /\ Len(rec.replaced) = Len(rec.tracks_to_replace)
    /\ \A k \in DOMAIN rec.replaced :
         /\ Len(rec.replaced[k]) = Len(BeforeReplace(k))
         /\ ~ReplaceMatches(k) => rec.replaced[k] = BeforeReplace(k)
    /\ \A k \in AcceptedInserts :
         Cardinality(EntriesOf(rec.inserted, k)) = 1
    /\ Len(rec.inserted) = NumMatched + Cardinality(AcceptedInserts)
    /\ Len(rec.rb_playlist_tracks_by_index) =
         NumMatched + Cardinality(AcceptedInserts)
    /\ Len(rb_playlists[1]) = NumMatched + Cardinality(AcceptedInserts)

\* C23 witness: on matched tracks A, B the directives insert(X, index 1)
\* and replace(Y, index 4), which finds nothing to replace, have given
\* A, X, B: three entries.
C23_Witness ==
  /\ pc = "synced"
  /\ rec.rb_playlist_song_queue = <<QueueTrack(1), QueueTrack(2)>>
  /\ Len(rec.custom_tracks) = 2
  /\ rec.custom_tracks[1].type = <<"insert">>
  /\ rec.custom_tracks[1].index = <<1>>
  /\ rec.custom_tracks[2].type = <<"replace">>
  /\ rec.custom_tracks[2].index = <<4>>
  /\ ~ReplaceMatches(1)
  /\ rb_playlists[1] = <<QueueTrack(1), CustomTrackId(1), QueueTrack(2)>>

\* The accepted insert directives with a bad position: the target is not
\* a track of the queue, or the index asked for is negative or greater
\* than N.
BadPosition ==
  {k \in AcceptedInserts :
     \/ /\ rec.custom_tracks[k].target # NoneId
        /\ \A j \in 1..NumMatched :
             rec.rb_playlist_song_queue[j] # rec.custom_tracks[k].target
     \/ /\ AskedIndex(k) # <<>>
        /\ (AskedIndex(k)[1] < 0 \/ AskedIndex(k)[1] > NumMatched)}

\* C24: an accepted insert directive with a bad position is not dropped:
\* once the inserts are applied its custom track has one entry, which lies
\* after every original entry, and the track written at that place of the
\* playlist is the directive's (no replace of the model names it).
C24_BadPositionAppendsAfterOriginals ==
  pc = "synced" =>
    \A k \in BadPosition :
      /\ Cardinality(EntriesOf(rec.inserted, k)) = 1
      /\ \A p \in EntriesOf(rec.inserted, k) :
           /\ rec.inserted[p].track = rec.custom_tracks[k].rekordbox_id
           /\ rec.inserted[p].is_custom
           /\ \A j \in DOMAIN rec.inserted :
                rec.inserted[j].number = 0 => j < p
           /\ \A j \in DOMAIN rec.rb_playlist_tracks_by_index :
                rec.rb_playlist_tracks_by_index[j].number = 0 => j < p
           /\ rec.custom_tracks[k].rekordbox_id = CustomTrackId(k) =>
                rb_playlists[1][p] = CustomTrackId(k)

\* C24 witness: on matched tracks A, B the directives insert(X, index 3),
\* out of bounds, and insert(Y, target a track the queue does not hold)
\* have given A, B, X, Y.
C24_Witness ==
  /\ pc = "synced"
  /\ rec.rb_playlist_song_queue = <<QueueTrack(1), QueueTrack(2)>>
  /\ Len(rec.custom_tracks) = 2
  /\ rec.custom_tracks[1].type = <<"insert">>
  /\ rec.custom_tracks[1].index = <<3>>
  /\ rec.custom_tracks[2].type = <<"insert">>
  /\ rec.custom_tracks[2].target = StaleId
  /\ BadPosition = {1, 2}
  /\ rb_playlists[1] =
       <<QueueTrack(1), QueueTrack(2), CustomTrackId(1), CustomTrackId(2)>>

\* =================================================== find_track on its own
\* functions.py, lines 77-111, called with one query and one list of
\* library tracks at several thresholds.

\* Largest number of library tracks find_track is given.
MaxCandidates == 2
\* Largest number of calls followed for one query.
MaxCalls == 2

\* Values of fuzz.partial_ratio, and thresholds, between 0 and 100.
Ratios == {40, 80, 100}
Thresholds == {0, 80, 90, 100}

\* A library track as find_track sees it for the query at hand: its ID and
\* what fuzz.partial_ratio gives for the sanitized artist query against
\* its sanitized ArtistName and for the title query against its Title.
Candidate(ID, artist_ratio, title_ratio) ==
  [ID |-> ID, artist_ratio |-> artist_ratio, title_ratio |-> title_ratio]

\* Lines 85-93: the keys a query must have.
QueryIsValid(query) ==
  "query" \in query \/ ("artist" \in query /\ "title" \in query)

\* Line 110: list.sort(key = match, reverse = True), which is stable.
sort_by_match(track_and_matches) ==
  LET before(i, j) ==
        \/ track_and_matches[i].match > track_and_matches[j].match
        \/ /\ track_and_matches[i].match = track_and_matches[j].match
           /\ i < j
      rank(j) == 1 + Cardinality({i \in DOMAIN track_and_matches : before(i, j)})
  IN  [r \in DOMAIN track_and_matches |->
         track_and_matches[CHOOSE j \in DOMAIN track_and_matches : rank(j) = r]]

\* Faulty lines 102-103: a ratio matches when it is at most the threshold.
find_track_at_most_threshold(all_tracks, threshold, match_artist_and_title) ==
  LET artist_matches(track) == track.artist_ratio <= threshold
      title_matches(track) == track.title_ratio <= threshold
      qualifies(track) ==
        \/ match_artist_and_title /\ artist_matches(track) /\ title_matches(track)
        \/ ~match_artist_and_title /\ (artist_matches(track) \/ title_matches(track))
      kept == SelectSeq(all_tracks, qualifies)
  IN  sort_by_match([i \in DOMAIN kept |->
                       [track |-> kept[i].ID,
                        match |-> (kept[i].artist_ratio + kept[i].title_ratio) \div 2]])

\* Lines 95-111 of find_track for a valid query: the tracks whose ratios
\* clear the threshold (both, or either one), each with the mean of its two
\* ratios (the ratios of the model are even), best match first.
find_track(all_tracks, threshold, match_artist_and_title) ==
  LET artist_matches(track) == track.artist_ratio >= threshold
      title_matches(track) == track.title_ratio >= threshold
      qualifies(track) ==
        \/ match_artist_and_title /\ artist_matches(track) /\ title_matches(track)
        \/ ~match_artist_and_title /\ (artist_matches(track) \/ title_matches(track))
      kept == SelectSeq(all_tracks, qualifies)
  IN  sort_by_match([i \in DOMAIN kept |->
                       [track |-> kept[i].ID,
                        match |-> (kept[i].artist_ratio + kept[i].title_ratio) \div 2]])

\* The queries: a single 'query' string, an 'artist' and a 'title', or
\* a dict that has neither.
Queries == {{"query"}, {"artist", "title"}, {"title"}}

\* The lists of library tracks, the i-th with ID 40 + i.
CandidateLists ==
  UNION {{[i \in 1..n |-> Candidate(40 + i, ratios[i][1], ratios[i][2])] :
            ratios \in [1..n -> Ratios \X Ratios]} : n \in 0..MaxCandidates}

\* A caller is about to call find_track with a query, a list of library
\* tracks and a value of match_artist_and_title.
MatchInit ==
  /\ pc = "find_track"
  /\ PipelineIdle
  /\ track_id_db = <<>>
  /\ missing_tracks_db = <<>>
  /\ itunes_rate_limit_reached = FALSE
  /\ disk_track_id_db = <<>>
  /\ disk_missing_tracks_db = <<>>
  /\ id_overrides_db = <<>>
  /\ disk_id_overrides_db = <<>>
  /\ track_loop = <<>>
  /\ rec = <<>>
  /\ \E query \in Queries, all_tracks \in CandidateLists,
        match_artist_and_title \in BOOLEAN :
       search = [query |-> query, all_tracks |-> all_tracks,
                 match_artist_and_title |-> match_artist_and_title,
                 calls |-> <<>>]

\* One call of find_track that returns: the threshold and the result are
\* recorded.
FindTrack(threshold) ==
  /\ pc = "find_track"
  /\ QueryIsValid(search.query)
  /\ Len(search.calls) < MaxCalls
  /\ search' = [search EXCEPT !.calls =
                  Append(@, [threshold |-> threshold,
                             results |-> find_track(search.all_tracks, threshold,
                                           search.match_artist_and_title)])]
  /\ UNCHANGED <<pc, exit_code, interrupted, store_vars, disk_vars, rb_vars,
                 loop_vars, results_queue, pool_vars, overrides_vars,
                 track_loop, rec>>

\* Line 93: the query has neither 'query' nor 'artist' and 'title', and
\* find_track raises ValueError, which the caller does not catch.
FindTrackRaises ==
  /\ pc = "find_track"
  /\ ~QueryIsValid(search.query)
  /\ pc' = "except"
  /\ raised' = TRUE
  /\ UNCHANGED <<exit_code, interrupted, store_vars, disk_vars, rb_vars,
                 playlist_data, processed_count, taken, error_taken,
                 fallback_fetches, synced, skipped, timed_out,
                 results_queue, pool_vars, overrides_vars, unit_vars>>

MatchNext ==
  \/ \E threshold \in Thresholds : FindTrack(threshold)
  \/ FindTrackRaises
  \/ ExceptHandler

MatchSpec == MatchInit /\ [][MatchNext]_vars

\* The tracks of a result of find_track.
TracksOf(results) == {results[i].track : i \in DOMAIN results}

\* C25: of two calls of find_track with the same query, library tracks and
\* match_artist_and_title, the one with the higher threshold returns no
\* track the other does not return, and gives each track the same match;
\* every result is ordered by match, best first.
C25_HigherThresholdReturnsNoMore ==
  pc = "find_track" =>
    \A i \in DOMAIN search.calls, j \in DOMAIN search.calls :
      search.calls[i].threshold <= search.calls[j].threshold =>
        /\ TracksOf(search.calls[j].results) \subseteq
             TracksOf(search.calls[i].results)
        /\ \A m \in DOMAIN search.calls[j].results :
             \E n \in DOMAIN search.calls[i].results :
               search.calls[i].results[n] = search.calls[j].results[m]
        /\ \A m \in DOMAIN search.calls[j].results :
             \A n \in DOMAIN search.calls[j].results :
               m < n => search.calls[j].results[m].match >=
                          search.calls[j].results[n].match

\* C25 witness: with both ratios required, a call at threshold 80 returned
\* two tracks and a call at threshold 90 only one of them.
C25_Witness ==
  /\ pc = "find_track"
  /\ search.match_artist_and_title
  /\ Len(search.calls) = 2
  /\ search.calls[1].threshold = 80
  /\ search.calls[2].threshold = 90
  /\ Len(search.calls[1].results) = 2
  /\ Len(search.calls[2].results) = 1

\* The accepted insert directives that resolve to append-at-end: no
\* position, a target the queue does not hold, or an index out of bounds.
AppendedInserts == AcceptedInserts \ InsertsInBounds

\* C26 as stated: once the inserts are applied, the entries of the inserts
\* that resolve to append-at-end are the last entries of the list, in
\* declaration order.
C26_AppendedInsertsAreLast ==
  pc = "synced" =>
    \A k \in AppendedInserts :
      /\ EntriesOf(rec.inserted, k) # {}
      /\ \A p \in EntriesOf(rec.inserted, k) :
           p = Len(rec.inserted)
                 - Cardinality({i \in AppendedInserts : i >= k}) + 1

\* C26: once the inserts are applied, the entries of the inserts that
\* resolve to append-at-end are next to one another in declaration order,
\* after every original entry and every insert at an index below N, and
\* in front of the inserts at index N (the number of matched tracks),
\* which are the last entries of the list; so they are the last entries
\* when no insert asks for index N.
C26_AppendedInsertsPrecedeInsertsAtN ==
  pc = "synced" =>
    /\ \A k \in AppendedInserts :
         /\ EntriesOf(rec.inserted, k) # {}
         /\ \A p \in EntriesOf(rec.inserted, k) :
              /\ p = Len(rec.inserted) - Cardinality(InsertsAt(NumMatched))
                       - Cardinality({i \in AppendedInserts : i >= k}) + 1
              /\ rec.inserted[p].track = rec.custom_tracks[k].rekordbox_id
              /\ rec.inserted[p].index = <<>>
    /\ \A k \in InsertsAt(NumMatched) :
         /\ EntriesOf(rec.inserted, k) # {}
         /\ \A p \in EntriesOf(rec.inserted, k) :
              p = Len(rec.inserted)
                    - Cardinality({i \in InsertsAt(NumMatched) : i >= k}) + 1

\* C26 witness: on matched tracks A, B the directives insert(X, no
\* position) and insert(Y, index 2) have given A, B, X, Y.
C26_Witness ==
  /\ pc = "synced"
  /\ rec.rb_playlist_song_queue = <<QueueTrack(1), QueueTrack(2)>>
  /\ Len(rec.custom_tracks) = 2
  /\ AppendedInserts = {1}
  /\ InsertsAt(2) = {2}
  /\ rb_playlists[1] =
       <<QueueTrack(1), QueueTrack(2), CustomTrackId(1), CustomTrackId(2)>>

\* The places of a list that hold the matched track with originalIndex i,
\* still an original.
OriginalAt(list, i) ==
  {j \in DOMAIN list : list[j].number = 0 /\ list[j].index = <<i>>}

\* C27: a replace with index t (the directive's index when it gives one,
\* else its offset, else its position - 1) changes the list at the one
\* place that holds the matched track with originalIndex t + 1, if that
\* track is still an original, putting its custom track there; it changes
\* nothing otherwise, and never an entry that an insert or an earlier
\* replace brought.  So of two replaces with the same index the second has
\* no entry, in the list it leaves and in the final one.
C27_ReplaceByIndexHitsOriginalOnly ==
  pc = "synced" =>
    \A k \in DOMAIN rec.tracks_to_replace :
      LET c == rec.tracks_to_replace[k]
          before == BeforeReplace(k)
          after == rec.replaced[k]
      IN  c.index # <<>> =>
            /\ rec.custom_tracks[c.number].index # <<>> =>
                 c.index = rec.custom_tracks[c.number].index
            /\ Cardinality(OriginalAt(before, c.index[1] + 1)) <= 1
            /\ \A j \in DOMAIN before :
                 IF j \in OriginalAt(before, c.index[1] + 1)
                   THEN /\ after[j].track = c.rekordbox_id
                        /\ after[j].is_custom
                        /\ after[j].number = c.number
                 ELSE after[j] = before[j]
            /\ \A k1 \in 1..(k - 1) :
                 rec.tracks_to_replace[k1].index = c.index =>
                   /\ EntriesOf(after, c.number) = {}
                   /\ EntriesOf(rec.rb_playlist_tracks_by_index, c.number) = {}

\* C27 witness: on matched tracks A, B the directives replace(Y, index 0)
\* and replace(Z, index 0) have given Y, B.
C27_Witness ==
  /\ pc = "synced"
  /\ rec.rb_playlist_song_queue = <<QueueTrack(1), QueueTrack(2)>>
  /\ Len(rec.tracks_to_replace) = 2
  /\ rec.tracks_to_replace[1].index = <<0>>
  /\ rec.tracks_to_replace[2].index = <<0>>
  /\ rb_playlists[1] = <<CustomTrackId(1), QueueTrack(2)>>

\* The places of a list that hold the track id.
PlacesOf(list, id) == {j \in DOMAIN list : list[j].track = id}

\* C28: a replace that gives a target and no index, offset or position
\* puts its custom track at every place of the list that holds the target
\* track, be the entry there an original, an inserted or a replaced one,
\* and changes no other place: the list it leaves holds the target track
\* nowhere (the custom track is another track than the target), and the
\* entries the replace brought are as many as the target had.
C28_ReplaceByTargetHitsEveryOccurrence ==
  pc = "synced" =>
    \A k \in DOMAIN rec.tracks_to_replace :
      LET c == rec.tracks_to_replace[k]
          d == rec.custom_tracks[c.number]
          before == BeforeReplace(k)
          after == rec.replaced[k]
      IN  (d.index = <<>> /\ d.offset = <<>> /\ d.position = <<>>
             /\ d.target # NoneId) =>
            /\ \A j \in DOMAIN before :
                 IF before[j].track = d.target
                   THEN /\ after[j].track = d.rekordbox_id
                        /\ after[j].is_custom
                        /\ after[j].index = before[j].index
                 ELSE after[j] = before[j]
            /\ d.rekordbox_id # d.target => PlacesOf(after, d.target) = {}
            /\ Cardinality(EntriesOf(after, c.number)) =
                 Cardinality(PlacesOf(before, d.target))

\* C28 witness: on matched tracks A, B, A the directive replace(Y, target
\* A) has given Y, B, Y.
C28_Witness ==
  /\ pc = "synced"
  /\ rec.rb_playlist_song_queue = <<QueueTrack(1), QueueTrack(2), QueueTrack(1)>>
  /\ Len(rec.custom_tracks) = 1
  /\ rec.custom_tracks[1].type = <<"replace">>
  /\ rec.custom_tracks[1].target = QueueTrack(1)
  /\ rec.custom_tracks[1].offset = <<>>
  /\ rb_playlists[1] = <<CustomTrackId(1), QueueTrack(2), CustomTrackId(1)>>

\* C29 as stated: the originalIndex of every matched track, against which
\* the directives are resolved, is the track's 1-based position in the
\* source playlist, that is its position in the report's all_tracks.
C29_OriginalIndexIsSourcePosition ==
  pc = "synced" =>
    \A j \in DOMAIN rec.inserted :
      rec.inserted[j].number = 0 =>
        /\ rec.inserted[j].index[1] \in DOMAIN rec.all_tracks
        /\ rec.all_tracks[rec.inserted[j].index[1]].rekordbox =
             rec.inserted[j].track

\* C30: rb.commit() runs at most once per run, and when it has run the
\* stores were saved first (once, and the files hold what is in memory),
\* no sync_playlist raised, and the drain loop had ended because every
\* playlist was processed or the queue timed out.  Once a sync_playlist
\* has raised, no further playlist is processed (the main thread is in the
\* handler or past it) and the transaction is never committed; and the
\* process, when no Ctrl-C hits the handler, ends with the stores saved
\* once and exit code 130.
C30_CommitOnceAfterSaveOnNormalEnd ==
  /\ rb_committed <= 1
  /\ rb_committed = 1 =>
       /\ pc \in {"returned", "exiting", "dead"}
       /\ ~raised
       /\ save_count = 1
       /\ disk_track_id_db = track_id_db
       /\ disk_missing_tracks_db = missing_tracks_db
       /\ disk_sync_report = <<sync_report>>
       /\ timed_out \/ ~LoopCondition(processed_count, total_playlists)
  /\ pc = "commit" => (save_count = 1 /\ ~raised)
  /\ raised =>
       /\ rb_committed = 0
       /\ pc \in {"except", "exiting", "dead"}
       /\ playlist_data = <<>>
       /\ (pc \in {"exiting", "dead"} /\ ~interrupted) =>
            /\ save_count = 1
            /\ exit_code = EXIT_SYNC_EXCEPT
            /\ disk_track_id_db = track_id_db
            /\ disk_missing_tracks_db = missing_tracks_db

\* C30 witness: the process has ended with exit code 130 after one
\* playlist was synced and the sync of a later one raised, with playlists
\* left untaken; the stores are saved and nothing is committed.
C30_Witness ==
  /\ pc = "dead"
  /\ raised
  /\ ~interrupted
  /\ exit_code = EXIT_SYNC_EXCEPT
  /\ processed_count = 1
  /\ taken < total_playlists
  /\ save_count = 1
  /\ rb_committed = 0
  /\ rb_playlists # <<>>

====
